---------------------------- MODULE Spec2Model ----------------------------
(***************************************************************************)
(* Model of the ZIP robot serial protocol test tooling:                    *)
(*   robot/firmware/zip_robot_uno/test_robot_serial.py   ("uno" script)    *)
(*   robot/bridge/zip-robot-bridge/scripts/test_robot_serial.py ("bridge") *)
(* CRC16, frame encoder, streaming frame decoder, sequence generator and   *)
(* the send / receive / wait-for-ACK transaction layer.                    *)
(***************************************************************************)
EXTENDS Integers, Sequences, FiniteSets, TLC

VARIABLES
    pc,          \* position of the driving script
    input,       \* arguments of the call under study: [msg_type, seq, payload]
    frame,       \* result of ProtocolEncoder.encode   [raised, frame]
    bframe,      \* result of the bridge encode_frame  [raised, frame]
    data,        \* byte string handed to the two checksum functions
    crc_table,   \* result of the uno (table-driven) calculate_crc16
    crc_bitwise, \* result of the bridge (bit-wise) calculate_crc16
    next_seq,    \* ProtocolEncoder.next_seq
    last_seq,    \* value returned by the last get_next_seq call (0: none yet)
    calls,       \* number of get_next_seq calls made
    decoder,     \* the uno ProtocolDecoder: state, buffer, expected_len, ...
    rx,          \* bytes waiting in the serial input buffer (in_waiting)
    tx,          \* bytes written to the serial port
    fed,         \* every byte handed to decoder.process_byte, in order
    rets,        \* the value process_byte returned for each of them
    messages,    \* receive_messages' local list `messages`
    got,         \* result of the last get_message / wait_for_ack: <<>> is None
    is_open,     \* self.serial is present and open
    sent,        \* outcome of the last send_command call [ret, raised]
    wait_seq,    \* the sequence number the current wait_for_ack call awaits
    rounds,      \* number of test_set_mode calls that have returned
    win_start,   \* Len(fed) when the current receive loop was entered
    garbage,     \* the noise bytes the device side has put on the channel
    device_frames, \* the messages whose frames the device has transmitted
    bdecoder,    \* the bridge ProtocolDecoder of the current send_command
    brets,       \* the value the bridge process_byte returned for each byte
    now,         \* time.time(), in clock ticks
    start_time,  \* receive_messages' local start_time
    sframes,     \* result of encode_frame of each test script called so far
    decoded      \* result of the last decode_frame call: <<>> is None

\* variables of the pure-function specifications
pureVars == <<input, frame, bframe, data, crc_table, crc_bitwise, last_seq, calls>>
\* RobotTester and its encoder
hostVars == <<next_seq, is_open, sent, tx, wait_seq, rounds, messages, got>>
\* the uno decoder and the record of what it was fed
decVars == <<decoder, fed, rets, win_start>>
\* the incoming side of the serial channel
chanVars == <<rx, garbage, device_frames>>
\* the clock and the start of the current receive loop
clockVars == <<now, start_time>>
\* results of the functions of the stand-alone test scripts
scriptVars == <<sframes, decoded>>

vars == <<pc, pureVars, hostVars, decVars, chanVars, bdecoder, brets, clockVars,
          scriptVars>>

---------------------------------------------------------------------------
(* Protocol constants *)

PROTOCOL_HEADER_0 == 170
PROTOCOL_HEADER_1 == 85
PROTOCOL_MAX_PAYLOAD_SIZE == 64
MSG_TYPE_HELLO == 1
MSG_TYPE_SET_MODE == 2
MSG_TYPE_SERVO == 5
MSG_TYPE_INFO == 129
MSG_TYPE_ACK == 130
MSG_TYPE_TELEMETRY == 131
MSG_TYPE_FAULT == 132
CRC16_POLYNOMIAL == 4129
CRC16_INITIAL == 65535

(* Python's None for an Optional value, and a present value *)
None == <<>>
Some(v) == <<v>>

---------------------------------------------------------------------------
(* Integer bit operations on naturals *)

\* a ^ b and a | b on 4-bit values
Xor4 == [a \in 0..15 |-> [b \in 0..15 |->
            LET bit(k) == (((a \div k) % 2) + ((b \div k) % 2)) % 2
            IN  bit(1) + (2 * bit(2)) + (4 * bit(4)) + (8 * bit(8))]]

Or4 == [a \in 0..15 |-> [b \in 0..15 |->
            LET bit(k) == IF ((a \div k) % 2) + ((b \div k) % 2) > 0 THEN 1 ELSE 0
            IN  bit(1) + (2 * bit(2)) + (4 * bit(4)) + (8 * bit(8))]]

\* a ^ b, four bits at a time
RECURSIVE BitXor(_, _)
BitXor(a, b) ==
    IF a = 0 THEN b
    ELSE IF b = 0 THEN a
    ELSE Xor4[a % 16][b % 16] + (16 * BitXor(a \div 16, b \div 16))

\* a | b, four bits at a time
RECURSIVE BitOr(_, _)
BitOr(a, b) ==
    IF a = 0 THEN b
    ELSE IF b = 0 THEN a
    ELSE Or4[a % 16][b % 16] + (16 * BitOr(a \div 16, b \div 16))

\* crc & 0x8000 is non-zero
TopBitSet(crc) == ((crc \div 32768) % 2) = 1

---------------------------------------------------------------------------
(* uno script: table-driven CRC16 *)

\* init_crc16_table, body of `for j in range(8)`
TableRound(crc) ==
    IF TopBitSet(crc) THEN BitXor(crc * 2, CRC16_POLYNOMIAL) % 65536
    ELSE (crc * 2) % 65536

\* `for j in range(8)`, each round evaluated before the next
RECURSIVE TableRounds(_, _)
TableRounds(crc, n) ==
    IF n = 0 THEN crc
    ELSE LET next == TableRound(crc)
         IN  IF next >= 0 THEN TableRounds(next, n - 1) ELSE next

\* init_crc16_table: the list _crc16_table
crc16_table == [i \in 0..255 |-> TableRounds((i * 256) % 65536, 8)]

\* a table-driven step that forgets to fold the data byte into the index
TableStepNoByte(crc, byte) ==
    BitXor(crc * 256, crc16_table[(crc \div 256) % 256]) % 65536

\* calculate_crc16 (uno), body of `for byte in data`
TableStep(crc, byte) ==
    BitXor(crc * 256, crc16_table[BitXor(crc \div 256, byte) % 256]) % 65536

\* calculate_crc16 (uno), `for byte in data` over bytes[lo..hi]; the range is
\* walked in two halves, left to right, to keep the evaluation shallow
RECURSIVE TableLoop(_, _, _, _)
TableLoop(crc, bytes, lo, hi) ==
    IF lo > hi THEN crc
    ELSE IF lo = hi THEN TableStep(crc, bytes[lo])
    ELSE LET mid == (lo + hi) \div 2
             left == TableLoop(crc, bytes, lo, mid)
         IN  IF left >= 0 THEN TableLoop(left, bytes, mid + 1, hi) ELSE left

calculate_crc16(bytes) == TableLoop(CRC16_INITIAL, bytes, 1, Len(bytes))

(* bridge script: bit-wise CRC16 *)

\* calculate_crc16 (bridge), body of `for _ in range(8)`
BitwiseRound(crc) ==
    IF TopBitSet(crc) THEN BitXor(crc * 2, CRC16_POLYNOMIAL) % 65536
    ELSE (crc * 2) % 65536

\* `for _ in range(8)`, each round evaluated before the next
RECURSIVE BitwiseRounds(_, _)
BitwiseRounds(crc, n) ==
    IF n = 0 THEN crc
    ELSE LET next == BitwiseRound(crc)
         IN  IF next >= 0 THEN BitwiseRounds(next, n - 1) ELSE next

\* calculate_crc16 (bridge), body of `for byte in data`
BitwiseStep(crc, byte) == BitwiseRounds(BitXor(crc, byte * 256), 8)

\* calculate_crc16 (bridge), `for byte in data` over bytes[lo..hi], walked in
\* two halves, left to right
RECURSIVE BitwiseLoop(_, _, _, _)
BitwiseLoop(crc, bytes, lo, hi) ==
    IF lo > hi THEN crc
    ELSE IF lo = hi THEN BitwiseStep(crc, bytes[lo])
    ELSE LET mid == (lo + hi) \div 2
             left == BitwiseLoop(crc, bytes, lo, mid)
         IN  IF left >= 0 THEN BitwiseLoop(left, bytes, mid + 1, hi) ELSE left

bridge_calculate_crc16(bytes) == BitwiseLoop(CRC16_INITIAL, bytes, 1, Len(bytes))

---------------------------------------------------------------------------
(* Frame encoders *)

IsByte(v) == v \in 0..255

\* the outcome of a call that raised, and of one that returned a frame
Raised == [raised |-> TRUE, frame |-> <<>>]
Returned(bytes) == [raised |-> FALSE, frame |-> bytes]

\* ProtocolEncoder.get_next_seq: the value returned and the new next_seq.
\* Python integers do not wrap, so the comparison with 0 is on the true sum.
get_next_seq(ns) ==
    [seq |-> ns, next_seq |-> IF ns + 1 = 0 THEN 1 ELSE ns + 1]

\* encode writing the CRC high byte first
encode_crc_big_endian(msg_type, seq, payload) ==
    IF Len(payload) > PROTOCOL_MAX_PAYLOAD_SIZE THEN Raised
    ELSE LET data_len == 1 + 1 + Len(payload)
             head == <<PROTOCOL_HEADER_0, PROTOCOL_HEADER_1, data_len, msg_type, seq>>
                     \o payload
             crc == calculate_crc16(SubSeq(head, 3, Len(head)))
         IN  IF ~IsByte(msg_type) \/ ~IsByte(seq) THEN Raised
             ELSE Returned(head \o <<(crc \div 256) % 256, crc % 256>>)

\* encode without the payload size check (LEN still has to fit a byte)
encode_no_limit(msg_type, seq, payload) ==
    LET data_len == 1 + 1 + Len(payload)
        head == <<PROTOCOL_HEADER_0, PROTOCOL_HEADER_1, data_len, msg_type, seq>>
                \o payload
        crc == calculate_crc16(SubSeq(head, 3, Len(head)))
    IN  IF ~IsByte(data_len) \/ ~IsByte(msg_type) \/ ~IsByte(seq) THEN Raised
        ELSE Returned(head \o <<crc % 256, (crc \div 256) % 256>>)

\* ProtocolEncoder.encode (uno).  Storing a value outside 0..255 into a
\* bytearray raises ValueError.
encode(msg_type, seq, payload) ==
    IF Len(payload) > PROTOCOL_MAX_PAYLOAD_SIZE THEN Raised
    ELSE LET data_len == 1 + 1 + Len(payload)
             head == <<PROTOCOL_HEADER_0, PROTOCOL_HEADER_1, data_len, msg_type, seq>>
                     \o payload
             crc == calculate_crc16(SubSeq(head, 3, Len(head)))
         IN  IF ~IsByte(msg_type) \/ ~IsByte(seq) THEN Raised
             ELSE Returned(head \o <<crc % 256, (crc \div 256) % 256>>)

\* encode_frame (bridge)
encode_frame(msg_type, seq, payload) ==
    IF Len(payload) > PROTOCOL_MAX_PAYLOAD_SIZE THEN Raised
    ELSE LET length == 1 + 1 + Len(payload)
             head == <<PROTOCOL_HEADER_0, PROTOCOL_HEADER_1, length, msg_type, seq>>
                     \o payload
             crc == bridge_calculate_crc16(SubSeq(head, 3, Len(head)))
         IN  IF ~IsByte(msg_type) \/ ~IsByte(seq) THEN Raised
             ELSE Returned(head \o <<crc % 256, (crc \div 256) % 256>>)

---------------------------------------------------------------------------
(* The stand-alone test scripts: their copies of the checksum, of the      *)
(* encoder, and the whole-buffer decoder of test_led_diagnostic.py         *)

\* calculate_crc16 of test_command_reception.py and test_simple.py: the
\* table-driven loop
reception_calculate_crc16(bytes) == TableLoop(CRC16_INITIAL, bytes, 1, Len(bytes))

\* calculate_crc16 of test_led_diagnostic.py and test_led_simple.py whose
\* register starts at zero
led_calculate_crc16_zero_init(bytes) == BitwiseLoop(0, bytes, 1, Len(bytes))

\* calculate_crc16 of test_led_diagnostic.py and test_led_simple.py: the
\* bit-wise loop from 0xFFFF
led_calculate_crc16(bytes) == BitwiseLoop(65535, bytes, 1, Len(bytes))

\* encode_frame of test_command_reception.py: a bytearray of the frame size
\* filled position by position; there is no test of the payload length, and
\* storing a value outside 0..255 raises ValueError
reception_encode_frame(msg_type, seq, payload) ==
    LET data_len == 1 + 1 + Len(payload)
        head == <<PROTOCOL_HEADER_0, PROTOCOL_HEADER_1, data_len, msg_type, seq>>
                \o payload
        crc == reception_calculate_crc16(SubSeq(head, 3, Len(head)))
    IN  IF ~IsByte(data_len) \/ ~IsByte(msg_type) \/ ~IsByte(seq) THEN Raised
        ELSE Returned(head \o <<crc % 256, (crc \div 256) % 256>>)

\* encode_frame of test_simple.py
simple_encode_frame(msg_type, seq, payload) ==
    LET data_len == 1 + 1 + Len(payload)
        head == <<170, 85, data_len, msg_type, seq>> \o payload
        crc == reception_calculate_crc16(SubSeq(head, 3, Len(head)))
    IN  IF ~IsByte(data_len) \/ ~IsByte(msg_type) \/ ~IsByte(seq) THEN Raised
        ELSE Returned(head \o <<crc % 256, (crc \div 256) % 256>>)

\* encode_frame of test_led_diagnostic.py: bytes appended to an empty
\* bytearray; there is no test of the payload length, and appending a value
\* outside 0..255 raises ValueError
led_encode_frame(msg_type, seq, payload) ==
    LET data_len == 1 + 1 + Len(payload)
        head == <<PROTOCOL_HEADER_0, PROTOCOL_HEADER_1, data_len, msg_type, seq>>
                \o payload
        crc == led_calculate_crc16(SubSeq(head, 3, Len(head)))
    IN  IF ~IsByte(data_len) \/ ~IsByte(msg_type) \/ ~IsByte(seq) THEN Raised
        ELSE Returned(head \o <<crc % 256, (crc \div 256) % 256>>)

\* encode_frame of test_led_simple.py
led_simple_encode_frame(msg_type, seq, payload) ==
    LET data_len == 1 + 1 + Len(payload)
        head == <<PROTOCOL_HEADER_0, PROTOCOL_HEADER_1, data_len, msg_type, seq>>
                \o payload
        crc == led_calculate_crc16(SubSeq(head, 3, Len(head)))
    IN  IF ~IsByte(data_len) \/ ~IsByte(msg_type) \/ ~IsByte(seq) THEN Raised
        ELSE Returned(head \o <<crc % 256, (crc \div 256) % 256>>)

\* the scripts that carry a copy of encode_frame
ScriptNames ==
    {"test_command_reception", "test_simple", "test_led_simple", "test_led_diagnostic"}

\* the entry of a script whose encode_frame has not been called
NotCalled == [raised |-> FALSE, frame |-> <<>>]

\* encode_frame of the named script
script_encode_frame(name, msg_type, seq, payload) ==
    CASE name = "test_command_reception" -> reception_encode_frame(msg_type, seq, payload)
      [] name = "test_simple" -> simple_encode_frame(msg_type, seq, payload)
      [] name = "test_led_simple" -> led_simple_encode_frame(msg_type, seq, payload)
      [] name = "test_led_diagnostic" -> led_encode_frame(msg_type, seq, payload)

\* decode_frame of test_led_diagnostic.py on the buffer `buf` (its argument
\* `data`): None, or the dict with type, seq and payload.  Python indices
\* are 0-based, data[i] is buf[i + 1] here.
decode_frame(buf) ==
    IF Len(buf) < 5 THEN None
    ELSE IF buf[1] # PROTOCOL_HEADER_0 \/ buf[2] # PROTOCOL_HEADER_1 THEN None
    ELSE LET length == buf[3]
             msg_type == buf[4]
             seq == buf[5]
         IN  IF Len(buf) < 5 + length + 2 THEN None
             ELSE LET payload == SubSeq(buf, 6, 5 + length - 2)
                      crc_data == SubSeq(buf, 3, 2 + length + 1)
                      calculated_crc == led_calculate_crc16(crc_data)
                      received_crc == BitOr(buf[5 + length - 2 + 1],
                                            buf[5 + length - 1 + 1] * 256)
                  IN  IF calculated_crc # received_crc THEN None
                      ELSE Some([type |-> msg_type, seq |-> seq, payload |-> payload])

---------------------------------------------------------------------------
(* uno script: ProtocolDecoder *)

EmptyMessage == [type |-> 0, seq |-> 0, payload |-> <<>>, valid |-> FALSE]

\* ProtocolDecoder.__init__
NewDecoder ==
    [state |-> "WAIT_HEADER_0", buffer |-> <<>>, expected_len |-> 0,
     expected_payload_len |-> 0, message |-> EmptyMessage]

\* a reset that leaves the two length fields as they are
reset_keeps_lengths(d) ==
    [d EXCEPT !.state = "WAIT_HEADER_0", !.buffer = <<>>, !.message = EmptyMessage]

\* ProtocolDecoder.reset
reset(d) ==
    [d EXCEPT !.state = "WAIT_HEADER_0", !.buffer = <<>>, !.expected_len = 0,
              !.expected_payload_len = 0, !.message = EmptyMessage]

\* a reset that does not look at the byte that caused it
ResetNoResync(d, byte_val) == reset(d)

\* a reset that keeps whatever byte caused it as a first sync byte
ResyncOnAnyByte(d, byte_val) ==
    [reset(d) EXCEPT !.buffer = <<byte_val>>, !.state = "WAIT_HEADER_1"]

\* a resynchronisation that takes the sync byte for the whole header
ResyncSkipsHeader(d, byte_val) ==
    IF byte_val = PROTOCOL_HEADER_0
    THEN [reset(d) EXCEPT !.buffer = <<byte_val>>, !.state = "WAIT_LEN"]
    ELSE reset(d)

\* a resynchronisation that appends the sync byte to the old buffer
ResyncKeepsBuffer(d, byte_val) ==
    IF byte_val = PROTOCOL_HEADER_0
    THEN [reset(d) EXCEPT !.buffer = Append(d.buffer, byte_val), !.state = "WAIT_HEADER_1"]
    ELSE reset(d)

\* `self.reset()` followed by `if byte_val == PROTOCOL_HEADER_0: ...`
ResetAndResync(d, byte_val) ==
    IF byte_val = PROTOCOL_HEADER_0
    THEN [reset(d) EXCEPT !.buffer = <<byte_val>>, !.state = "WAIT_HEADER_1"]
    ELSE reset(d)

\* validate_frame that compares the low CRC byte only
validate_frame_low_byte(d) ==
    LET n == Len(d.buffer)
    IN  IF n # 2 + 1 + d.expected_len + 2 THEN FALSE
        ELSE calculate_crc16(SubSeq(d.buffer, 3, 3 + d.expected_len)) % 256 = d.buffer[n - 1]

\* validate_frame that checks the buffer length and not the checksum
validate_frame_length_only(d) == Len(d.buffer) = 2 + 1 + d.expected_len + 2

\* validate_frame with the checksum span starting one byte late (at TYPE)
validate_frame_span_off_by_one(d) ==
    LET expected_buffer_len == 2 + 1 + d.expected_len + 2
        data_len == 1 + d.expected_len
        n == Len(d.buffer)
    IN  IF n # expected_buffer_len THEN FALSE
        ELSE LET crc_data == SubSeq(d.buffer, 4, 2 + data_len)
                 calculated_crc == calculate_crc16(crc_data)
                 received_crc == BitOr(d.buffer[n - 1], d.buffer[n] * 256)
             IN  calculated_crc = received_crc

\* ProtocolDecoder.validate_frame
validate_frame(d) ==
    LET expected_buffer_len == 2 + 1 + d.expected_len + 2
        data_len == 1 + d.expected_len
        n == Len(d.buffer)
    IN  IF n # expected_buffer_len THEN FALSE
        ELSE LET crc_data == SubSeq(d.buffer, 3, 2 + data_len)
                 calculated_crc == calculate_crc16(crc_data)
                 received_crc == BitOr(d.buffer[n - 1], d.buffer[n] * 256)
             IN  calculated_crc = received_crc

\* the length test that lets LEN = 1 through
InvalidLengthBelowOne(expected_len) ==
    expected_len < 1 \/ expected_len > 2 + PROTOCOL_MAX_PAYLOAD_SIZE

\* the length test with the upper limit left out
InvalidLengthNoMax(expected_len) == expected_len < 2

\* process_byte, WAIT_LEN: `self.expected_len < 2 or
\* self.expected_len > PROTOCOL_MAX_LEN`
InvalidLength(expected_len) ==
    expected_len < 2 \/ expected_len > 2 + PROTOCOL_MAX_PAYLOAD_SIZE

\* the if/elif chain of ProtocolDecoder.process_byte: the decoder after the
\* chain and whether the chain executed `return True`
Chain(d, byte_val) ==
    CASE d.state = "WAIT_HEADER_0" ->
           [dec |-> IF byte_val = PROTOCOL_HEADER_0
                    THEN [d EXCEPT !.buffer = <<byte_val>>, !.state = "WAIT_HEADER_1"]
                    ELSE d,
            ret |-> FALSE]
      [] d.state = "WAIT_HEADER_1" ->
           [dec |-> IF byte_val = PROTOCOL_HEADER_1
                    THEN [d EXCEPT !.buffer = Append(@, byte_val), !.state = "WAIT_LEN"]
                    ELSE ResetAndResync(d, byte_val),
            ret |-> FALSE]
      [] d.state = "WAIT_LEN" ->
           [dec |-> IF InvalidLength(byte_val)
                    THEN ResetAndResync([d EXCEPT !.expected_len = byte_val], byte_val)
                    ELSE [d EXCEPT !.expected_len = byte_val,
                                   !.buffer = Append(@, byte_val),
                                   !.expected_payload_len = byte_val - 2,
                                   !.state = "WAIT_TYPE"],
            ret |-> FALSE]
      [] d.state = "WAIT_TYPE" ->
           [dec |-> [d EXCEPT !.message.type = byte_val,
                              !.buffer = Append(@, byte_val),
                              !.state = "WAIT_SEQ"],
            ret |-> FALSE]
      [] d.state = "WAIT_SEQ" ->
           [dec |-> IF d.expected_payload_len > 0
                    THEN [d EXCEPT !.message.seq = byte_val,
                                   !.buffer = Append(@, byte_val),
                                   !.state = "WAIT_PAYLOAD",
                                   !.message.payload = <<>>]
                    ELSE [d EXCEPT !.message.seq = byte_val,
                                   !.buffer = Append(@, byte_val),
                                   !.state = "WAIT_CRC_0"],
            ret |-> FALSE]
      [] d.state = "WAIT_PAYLOAD" ->
           [dec |-> IF Len(d.message.payload) < d.expected_payload_len
                    THEN [d EXCEPT !.message.payload = Append(@, byte_val),
                                   !.buffer = Append(@, byte_val),
                                   !.state = IF Len(d.message.payload) + 1
                                                  >= d.expected_payload_len
                                             THEN "WAIT_CRC_0" ELSE @]
                    ELSE [d EXCEPT !.state = "WAIT_CRC_0",
                                   !.buffer = Append(@, byte_val)],
            ret |-> FALSE]
      [] d.state = "WAIT_CRC_0" ->
           [dec |-> [d EXCEPT !.buffer = Append(@, byte_val), !.state = "WAIT_CRC_1"],
            ret |-> FALSE]
      [] d.state = "WAIT_CRC_1" ->
           LET appended == [d EXCEPT !.buffer = Append(@, byte_val)]
           IN  IF validate_frame(appended)
               THEN LET result_msg == [type |-> appended.message.type,
                                       seq |-> appended.message.seq,
                                       payload |-> appended.message.payload,
                                       valid |-> TRUE]
                    IN  [dec |-> [reset(appended) EXCEPT !.message = result_msg],
                         ret |-> TRUE]
               ELSE [dec |-> ResetAndResync(appended, byte_val), ret |-> FALSE]

\* ProtocolDecoder.process_byte: the chain, then the buffer overflow check
\* on the paths that did not return True
process_byte(d, byte) ==
    LET c == Chain(d, byte % 256)
    IN  IF c.ret THEN c
        ELSE IF Len(c.dec.buffer) >= 256 THEN [dec |-> reset(c.dec), ret |-> FALSE]
        ELSE c

\* a get_message that leaves the message in the decoder
get_message_keeps(d) ==
    IF d.message.valid
    THEN [msg |-> Some(d.message), dec |-> d]
    ELSE [msg |-> None, dec |-> d]

\* ProtocolDecoder.get_message: the value returned and the decoder afterwards
get_message(d) ==
    IF d.message.valid
    THEN [msg |-> Some(d.message), dec |-> [d EXCEPT !.message = EmptyMessage]]
    ELSE [msg |-> None, dec |-> d]

---------------------------------------------------------------------------
(* uno script: RobotTester.send_command *)

\* send_command that writes the frame a second time
send_command_twice(ns, open, out, msg_type, payload) ==
    LET g == get_next_seq(ns)
        f == encode(msg_type, g.seq, payload)
    IN  IF f.raised
        THEN [next_seq |-> g.next_seq, tx |-> out, ret |-> None, raised |-> TRUE]
        ELSE IF open
        THEN [next_seq |-> g.next_seq, tx |-> out \o f.frame \o f.frame,
              ret |-> Some(g.seq), raised |-> FALSE]
        ELSE [next_seq |-> g.next_seq, tx |-> out, ret |-> Some(0), raised |-> FALSE]

\* send_command that takes a sequence number only when the channel is open
send_command_closed_keeps_seq(ns, open, out, msg_type, payload) ==
    LET g == get_next_seq(ns)
        f == encode(msg_type, g.seq, payload)
    IN  IF f.raised
        THEN [next_seq |-> g.next_seq, tx |-> out, ret |-> None, raised |-> TRUE]
        ELSE IF open
        THEN [next_seq |-> g.next_seq, tx |-> out \o f.frame,
              ret |-> Some(g.seq), raised |-> FALSE]
        ELSE [next_seq |-> ns, tx |-> out, ret |-> Some(0), raised |-> FALSE]

\* send_command(msg_type, payload) on encoder state ns, with `out` the bytes
\* written so far: an exception of encode propagates before any write
send_command(ns, open, out, msg_type, payload) ==
    LET g == get_next_seq(ns)
        f == encode(msg_type, g.seq, payload)
    IN  IF f.raised
        THEN [next_seq |-> g.next_seq, tx |-> out, ret |-> None, raised |-> TRUE]
        ELSE IF open
        THEN [next_seq |-> g.next_seq, tx |-> out \o f.frame,
              ret |-> Some(g.seq), raised |-> FALSE]
        ELSE [next_seq |-> g.next_seq, tx |-> out, ret |-> Some(0), raised |-> FALSE]

\* a receive_messages that starts every call with a new decoder
new_decoder_per_call(d) == NewDecoder

\* RobotTester.receive_messages reads through self.decoder, the one decoder
\* made in __init__, in the state its previous call left it in
self_decoder(d) == d

\* RobotTester.receive_messages, one iteration of the while loop that finds a
\* byte waiting: the decoder and the list `messages` afterwards
receive_byte_prepend(d, msgs, byte) ==
    LET r == process_byte(d, byte)
        g == get_message(r.dec)
    IN  IF r.ret
        THEN [dec |-> g.dec,
              messages |-> IF g.msg # None THEN <<g.msg[1]>> \o msgs ELSE msgs,
              ret |-> TRUE]
        ELSE [dec |-> r.dec, messages |-> msgs, ret |-> FALSE]

receive_byte(d, msgs, byte) ==
    LET r == process_byte(d, byte)
        g == get_message(r.dec)
    IN  IF r.ret
        THEN [dec |-> g.dec,
              messages |-> IF g.msg # None THEN Append(msgs, g.msg[1]) ELSE msgs,
              ret |-> TRUE]
        ELSE [dec |-> r.dec, messages |-> msgs, ret |-> FALSE]

---------------------------------------------------------------------------
(* uno script: RobotTester.wait_for_ack *)

\* a Python dict as far as the scripts read it: the keys 'ok' and 'err'
Dict(has_ok, ok, has_err, err) ==
    [has_ok |-> has_ok, ok |-> ok, has_err |-> has_err, err |-> err]

JSON_EMPTY_OBJECT == <<123, 125>>                                    \* {}
JSON_NULL == <<110, 117, 108, 108>>                                  \* null
JSON_OK_TRUE == <<123, 34, 111, 107, 34, 58, 116, 114, 117, 101, 125>>  \* {"ok":true}
\* {"ok":false,"err":1}
JSON_REJECT ==
    <<123, 34, 111, 107, 34, 58, 102, 97, 108, 115, 101, 44,
      34, 101, 114, 114, 34, 58, 49, 125>>

\* json.loads(payload.decode('utf-8')) on the payloads the device sends in
\* this model: four JSON documents; the other payloads (the empty one, the
\* ones holding sync bytes) are not JSON or not UTF-8 and raise.  The JSON
\* document `null` loads as Python's None.
JsonLoads(payload) ==
    CASE payload = JSON_EMPTY_OBJECT -> [raised |-> FALSE, value |-> Some(Dict(FALSE, FALSE, FALSE, 0))]
      [] payload = JSON_OK_TRUE -> [raised |-> FALSE, value |-> Some(Dict(TRUE, TRUE, FALSE, 0))]
      [] payload = JSON_REJECT -> [raised |-> FALSE, value |-> Some(Dict(TRUE, FALSE, TRUE, 1))]
      [] payload = JSON_NULL -> [raised |-> FALSE, value |-> None]
      [] OTHER -> [raised |-> TRUE, value |-> None]

\* the value wait_for_ack builds from a matching message
AckData(msg) ==
    IF JsonLoads(msg.payload).raised
    THEN Some(Dict(TRUE, TRUE, FALSE, 0))
    ELSE JsonLoads(msg.payload).value

\* wait_for_ack that accepts an ACK of any sequence number
wait_for_ack_any_seq(msgs, seq) ==
    LET matching == {i \in 1..Len(msgs) : msgs[i].type = MSG_TYPE_ACK}
    IN  IF matching = {} THEN None
        ELSE AckData(msgs[CHOOSE i \in matching : \A k \in matching : i <= k])

\* RobotTester.wait_for_ack, the loop over the messages receive_messages
\* returned: the first ACK with the awaited sequence decides
wait_for_ack(msgs, seq) ==
    LET matching == {i \in 1..Len(msgs) :
                        msgs[i].type = MSG_TYPE_ACK /\ msgs[i].seq = seq}
    IN  IF matching = {} THEN None
        ELSE AckData(msgs[CHOOSE i \in matching : \A k \in matching : i <= k])

\* test_set_mode, from `if ack:` on: the value returned.  An empty dict and
\* None are both false in `if ack:`.
test_set_mode_result(ack) ==
    IF ack = None THEN FALSE
    ELSE IF ~ack[1].has_ok /\ ~ack[1].has_err THEN FALSE
    ELSE IF ack[1].has_ok THEN ack[1].ok ELSE FALSE

\* json.dumps({'mode': mode}).encode('utf-8') for a one-digit mode
SetModePayload(mode) == <<123, 34, 109, 111, 100, 101, 34, 58, 32, 48 + mode, 125>>

---------------------------------------------------------------------------
(* bridge script: ProtocolDecoder and send_command *)

\* ProtocolDecoder.reset (bridge)
bridge_reset(d) ==
    [d EXCEPT !.state = "WAIT_HEADER_0", !.buffer = <<>>, !.expected_len = 0,
              !.expected_payload_len = 0, !.message = EmptyMessage]

\* ProtocolDecoder.validate_frame (bridge)
bridge_validate_frame(d) ==
    LET expected_buffer_len == 2 + 1 + d.expected_len + 2
        data_len == 1 + d.expected_len
        n == Len(d.buffer)
    IN  IF n # expected_buffer_len THEN FALSE
        ELSE LET crc_data == SubSeq(d.buffer, 3, 2 + data_len)
                 calculated_crc == bridge_calculate_crc16(crc_data)
                 received_crc == BitOr(d.buffer[n - 1], d.buffer[n] * 256)
             IN  calculated_crc = received_crc

\* the bridge process_byte running the if/elif chain of the uno decoder, which
\* keeps a rejected 0xAA as first sync byte
bridge_process_byte_resync(d, byte) == Chain(d, byte)

\* ProtocolDecoder.process_byte (bridge): the decoder afterwards and the value
\* returned.  On a valid frame the message is copied into the local `result`,
\* which is dropped, and reset() then clears self.message.
bridge_process_byte(d, byte) ==
    CASE d.state = "WAIT_HEADER_0" ->
           [dec |-> IF byte = PROTOCOL_HEADER_0
                    THEN [d EXCEPT !.buffer = <<byte>>, !.state = "WAIT_HEADER_1"]
                    ELSE d,
            ret |-> FALSE]
      [] d.state = "WAIT_HEADER_1" ->
           [dec |-> IF byte = PROTOCOL_HEADER_1
                    THEN [d EXCEPT !.buffer = Append(@, byte), !.state = "WAIT_LEN"]
                    ELSE bridge_reset(d),
            ret |-> FALSE]
      [] d.state = "WAIT_LEN" ->
           [dec |-> IF byte < 2 \/ byte > 2 + PROTOCOL_MAX_PAYLOAD_SIZE
                    THEN bridge_reset([d EXCEPT !.expected_len = byte])
                    ELSE [d EXCEPT !.expected_len = byte,
                                   !.buffer = Append(@, byte),
                                   !.expected_payload_len = byte - 2,
                                   !.state = "WAIT_TYPE"],
            ret |-> FALSE]
      [] d.state = "WAIT_TYPE" ->
           [dec |-> [d EXCEPT !.message.type = byte,
                              !.buffer = Append(@, byte),
                              !.state = "WAIT_SEQ"],
            ret |-> FALSE]
      [] d.state = "WAIT_SEQ" ->
           [dec |-> IF d.expected_payload_len > 0
                    THEN [d EXCEPT !.message.seq = byte,
                                   !.buffer = Append(@, byte),
                                   !.state = "WAIT_PAYLOAD",
                                   !.message.payload = <<>>]
                    ELSE [d EXCEPT !.message.seq = byte,
                                   !.buffer = Append(@, byte),
                                   !.state = "WAIT_CRC_0"],
            ret |-> FALSE]
      [] d.state = "WAIT_PAYLOAD" ->
           [dec |-> IF Len(d.message.payload) < d.expected_payload_len
                    THEN [d EXCEPT !.message.payload = Append(@, byte),
                                   !.buffer = Append(@, byte),
                                   !.state = IF Len(d.message.payload) + 1
                                                  >= d.expected_payload_len
                                             THEN "WAIT_CRC_0" ELSE @]
                    ELSE d,
            ret |-> FALSE]
      [] d.state = "WAIT_CRC_0" ->
           [dec |-> [d EXCEPT !.buffer = Append(@, byte), !.state = "WAIT_CRC_1"],
            ret |-> FALSE]
      [] d.state = "WAIT_CRC_1" ->
           LET appended == [d EXCEPT !.buffer = Append(@, byte)]
           IN  IF bridge_validate_frame(appended)
               THEN [dec |-> bridge_reset([appended EXCEPT !.message.valid = TRUE]),
                     ret |-> TRUE]
               ELSE [dec |-> bridge_reset(appended), ret |-> FALSE]

\* send_command (bridge), the ACK branch: the dict built from msg, or the
\* 'Failed to parse ACK' dict when json.loads raises or the document is no
\* object (ack_data.get raises AttributeError)
bridge_ack_result(msg) ==
    LET j == JsonLoads(msg.payload)
    IN  IF j.raised \/ j.value = None
        THEN Some([ok |-> FALSE, parsed |-> FALSE, err |-> 0, seq |-> msg.seq])
        ELSE Some([ok |-> IF j.value[1].has_ok THEN j.value[1].ok ELSE TRUE,
                   parsed |-> TRUE,
                   err |-> IF j.value[1].has_err THEN j.value[1].err ELSE 0,
                   seq |-> msg.seq])

---------------------------------------------------------------------------
(* uno script: RobotTester.receive_messages, the loop condition *)

\* a result list that starts from what the previous call left
KeptMessages == messages

\* receive_messages: `messages = []`
NewMessages == <<>>

\* a loop condition that also holds as long as input is pending
loop_running_while_pending(t, start, timeout) == t - start < timeout \/ rx # <<>>

\* `while time.time() - start_time < timeout`
loop_running(t, start, timeout) == t - start < timeout

---------------------------------------------------------------------------
(* Bounds of the model *)

MaxCrcLen == 3        \* longest byte string handed to the checksum functions
MaxPayloadLen == 2    \* longest payload enumerated byte by byte
MaxCalls == 300       \* number of get_next_seq calls followed
MaxNoise == 3         \* number of noise bytes put on the channel
MaxFrames == 2        \* number of frames the device transmits
MaxRounds == 2        \* number of test_set_mode calls
MaxPrefix == 3        \* number of freely chosen bytes that open a byte stream
AwaitTicks == 2       \* the timeout of wait_for_ack, in clock ticks
MaxLead == 4          \* number of bytes that precede the frame in a stream given to both decoders
MaxSends == 4         \* number of send_command calls followed

\* byte values the checksum inputs are built from: every single bit, and
\* the protocol's own bytes
CrcBytes == {0, 1, 2, 4, 8, 16, 32, 64, 128, 255, 170, 85, 123, 125, 130, 51}

\* byte values payloads are built from: '{', '}', and the two sync bytes
PayloadBytes == {123, 125, PROTOCOL_HEADER_0, PROTOCOL_HEADER_1}

TypeSamples == {0, MSG_TYPE_HELLO, MSG_TYPE_ACK, PROTOCOL_HEADER_0, 255}
SeqSamples == {0, 1, PROTOCOL_HEADER_1, PROTOCOL_HEADER_0, 255}

SeqsUpTo(S, n) == UNION {[1..k -> S] : k \in 0..n}

\* payloads around the size limit
LongPayloads ==
    {[i \in 1..n |-> PROTOCOL_HEADER_0] :
        n \in (PROTOCOL_MAX_PAYLOAD_SIZE - 1)..(PROTOCOL_MAX_PAYLOAD_SIZE + 2)}

CodecInputs ==
    [msg_type : TypeSamples, seq : SeqSamples,
     payload : SeqsUpTo(PayloadBytes, MaxPayloadLen) \cup LongPayloads]

NoInput == [msg_type |-> 0, seq |-> 0, payload |-> <<>>]
NotSent == [ret |-> None, raised |-> FALSE]

---------------------------------------------------------------------------
(* State after construction, by group of variables *)

PureInit ==
    /\ input = NoInput /\ frame = Raised /\ bframe = Raised
    /\ data = <<>> /\ crc_table = CRC16_INITIAL /\ crc_bitwise = CRC16_INITIAL
    /\ last_seq = 0 /\ calls = 0

\* RobotTester.__init__ with the port opened by connect
HostInit ==
    /\ next_seq = 1 /\ is_open = TRUE /\ sent = NotSent /\ tx = <<>>
    /\ wait_seq = 0 /\ rounds = 0 /\ messages = <<>> /\ got = None

DecInit ==
    /\ decoder = NewDecoder /\ fed = <<>> /\ rets = <<>> /\ win_start = 0

ChanInit ==
    /\ rx = <<>> /\ garbage = <<>> /\ device_frames = <<>>

ClockInit ==
    /\ now = 0 /\ start_time = 0

\* no script function has been called
ScriptInit ==
    /\ sframes = [name \in ScriptNames |-> NotCalled] /\ decoded = None

---------------------------------------------------------------------------
(* Checksum specification: both calculate_crc16 functions applied to the  *)
(* same byte strings                                                       *)

InitCrc ==
    /\ pc = "crc"
    /\ data = <<>>
    /\ crc_table = calculate_crc16(<<>>)
    /\ crc_bitwise = bridge_calculate_crc16(<<>>)
    /\ input = NoInput /\ frame = Raised /\ bframe = Raised
    /\ last_seq = 0 /\ calls = 0
    /\ HostInit /\ DecInit /\ ChanInit /\ bdecoder = NewDecoder /\ brets = <<>> /\ ClockInit
    /\ ScriptInit

Checksum(b) ==
    /\ pc = "crc"
    /\ Len(data) < MaxCrcLen
    /\ data' = Append(data, b)
    /\ crc_table' = calculate_crc16(data')
    /\ crc_bitwise' = bridge_calculate_crc16(data')
    /\ UNCHANGED <<pc, input, frame, bframe, last_seq, calls,
                   hostVars, decVars, chanVars, bdecoder, clockVars,
                   brets,
                   scriptVars>>

NextCrc == \E b \in CrcBytes : Checksum(b)

SpecCrc == InitCrc /\ [][NextCrc]_vars

---------------------------------------------------------------------------
(* Sequence generator specification: repeated get_next_seq calls on one   *)
(* ProtocolEncoder                                                         *)

InitSeq ==
    /\ pc = "seq"
    /\ PureInit /\ HostInit /\ DecInit /\ ChanInit /\ bdecoder = NewDecoder /\ brets = <<>> /\ ClockInit
    /\ ScriptInit

\* seq = encoder.get_next_seq()
GetNextSeq ==
    /\ pc = "seq"
    /\ calls < MaxCalls
    /\ last_seq' = get_next_seq(next_seq).seq
    /\ next_seq' = get_next_seq(next_seq).next_seq
    /\ calls' = calls + 1
    /\ UNCHANGED <<pc, input, frame, bframe, data, crc_table, crc_bitwise,
                   is_open, sent, tx, wait_seq, rounds, messages, got,
                   decVars, chanVars, bdecoder, clockVars,
                   brets,
                   scriptVars>>

NextSeq == GetNextSeq

SpecSeq == InitSeq /\ [][NextSeq]_vars

---------------------------------------------------------------------------
(* Codec specification: encode, encode_frame and send_command applied to  *)
(* drawn inputs, and the encoded frame fed to a fresh decoder              *)

InitCodec ==
    /\ pc = "start"
    /\ input \in CodecInputs
    /\ is_open \in BOOLEAN
    /\ frame = Raised /\ bframe = Raised
    /\ data = <<>> /\ crc_table = CRC16_INITIAL /\ crc_bitwise = CRC16_INITIAL
    /\ last_seq = 0 /\ calls = 0
    /\ next_seq = 1 /\ sent = NotSent /\ tx = <<>>
    /\ wait_seq = 0 /\ rounds = 0 /\ messages = <<>> /\ got = None
    /\ DecInit /\ ChanInit /\ bdecoder = NewDecoder /\ brets = <<>> /\ ClockInit
    /\ ScriptInit

\* frame = encoder.encode(msg_type, seq, payload)
Encode ==
    /\ pc = "start"
    /\ frame' = encode(input.msg_type, input.seq, input.payload)
    /\ pc' = "encoded"
    /\ UNCHANGED <<input, bframe, data, crc_table, crc_bitwise, last_seq, calls,
                   hostVars, decVars, chanVars, bdecoder, clockVars,
                   brets,
                   scriptVars>>

\* frame = encode_frame(msg_type, seq, payload)   (bridge)
EncodeFrame ==
    /\ pc = "encoded"
    /\ bframe' = encode_frame(input.msg_type, input.seq, input.payload)
    /\ pc' = "bencoded"
    /\ UNCHANGED <<input, frame, data, crc_table, crc_bitwise, last_seq, calls,
                   hostVars, decVars, chanVars, bdecoder, clockVars,
                   brets,
                   scriptVars>>

\* decoder.process_byte(frame[k]) for the next byte of the encoded frame
FeedFrameByte ==
    /\ pc = "bencoded"
    /\ ~frame.raised
    /\ Len(fed) < Len(frame.frame)
    /\ LET r == process_byte(decoder, frame.frame[Len(fed) + 1])
       IN  /\ decoder' = r.dec
           /\ rets' = Append(rets, r.ret)
    /\ fed' = Append(fed, frame.frame[Len(fed) + 1])
    /\ UNCHANGED <<pc, pureVars, hostVars, win_start, chanVars, bdecoder, clockVars,
                   brets,
                   scriptVars>>

\* decoder.get_message() once the whole frame has been fed
GetMessage ==
    /\ pc = "bencoded"
    /\ ~frame.raised
    /\ Len(fed) = Len(frame.frame)
    /\ got' = get_message(decoder).msg
    /\ decoder' = get_message(decoder).dec
    /\ pc' = "done"
    /\ UNCHANGED <<pureVars, next_seq, is_open, sent, tx, wait_seq, rounds, messages,
                   fed, rets, win_start, chanVars, bdecoder, clockVars,
                   brets,
                   scriptVars>>

\* tester.send_command(msg_type, payload)
SendCommand ==
    /\ pc = "start"
    /\ LET r == send_command(next_seq, is_open, tx, input.msg_type, input.payload)
       IN  /\ next_seq' = r.next_seq
           /\ tx' = r.tx
           /\ sent' = [ret |-> r.ret, raised |-> r.raised]
    /\ pc' = "sent"
    /\ UNCHANGED <<pureVars, is_open, wait_seq, rounds, messages, got,
                   decVars, chanVars, bdecoder, clockVars,
                   brets,
                   scriptVars>>

NextCodec == Encode \/ EncodeFrame \/ FeedFrameByte \/ GetMessage \/ SendCommand

SpecCodec == InitCodec /\ [][NextCodec]_vars

---------------------------------------------------------------------------
(* Stream specification: a new RobotTester inside receive_messages, the   *)
(* device putting noise bytes and then valid frames on the channel         *)

\* byte values of the noise: the sync bytes, a valid and an invalid length
NoiseBytes == {PROTOCOL_HEADER_0, PROTOCOL_HEADER_1, 2, 0}

Msg(t, s, p) == [type |-> t, seq |-> s, payload |-> p, valid |-> TRUE]

\* the messages the device transmits
StreamMessages ==
    {Msg(MSG_TYPE_ACK, 1, <<>>),
     Msg(MSG_TYPE_ACK, 2, <<123, 125>>),
     Msg(MSG_TYPE_INFO, 1, <<PROTOCOL_HEADER_0, PROTOCOL_HEADER_1>>)}

\* the bytes of the valid frame that carries message m
FrameOf(m) == encode(m.type, m.seq, m.payload).frame

InitStream ==
    /\ pc = "receiving"
    /\ PureInit /\ HostInit /\ DecInit /\ ChanInit /\ bdecoder = NewDecoder /\ brets = <<>> /\ ClockInit
    /\ ScriptInit

\* a noise byte arrives, before any frame
StreamNoise(b) ==
    /\ pc = "receiving"
    /\ rx = <<>>
    /\ device_frames = <<>>
    /\ Len(garbage) < MaxNoise
    /\ rx' = <<b>>
    /\ garbage' = Append(garbage, b)
    /\ UNCHANGED <<pc, pureVars, hostVars, decVars, device_frames, bdecoder, clockVars,
                   brets,
                   scriptVars>>

\* the frame of message m arrives
StreamFrame(m) ==
    /\ pc = "receiving"
    /\ rx = <<>>
    /\ Len(device_frames) < MaxFrames
    /\ rx' = FrameOf(m)
    /\ device_frames' = Append(device_frames, m)
    /\ UNCHANGED <<pc, pureVars, hostVars, decVars, garbage, bdecoder, clockVars,
                   brets,
                   scriptVars>>

\* receive_messages: `byte = self.serial.read(1)[0]` and the processing of it
ReceiveByte ==
    /\ pc = "receiving"
    /\ is_open
    /\ rx # <<>>
    /\ LET r == receive_byte(decoder, messages, Head(rx))
       IN  /\ decoder' = r.dec
           /\ messages' = r.messages
           /\ rets' = Append(rets, r.ret)
    /\ fed' = Append(fed, Head(rx))
    /\ rx' = Tail(rx)
    /\ UNCHANGED <<pc, pureVars, next_seq, is_open, sent, tx, wait_seq, rounds, got,
                   win_start, garbage, device_frames, bdecoder, clockVars,
                   brets,
                   scriptVars>>

NextStream ==
    \/ \E b \in NoiseBytes : StreamNoise(b)
    \/ \E m \in StreamMessages : StreamFrame(m)
    \/ ReceiveByte

SpecStream == InitStream /\ [][NextStream]_vars

---------------------------------------------------------------------------
(* Tester specification: RobotTester.test_set_mode called repeatedly on   *)
(* one tester, the device answering with frames                            *)

\* the messages the device transmits to the tester
TesterMessages ==
    {Msg(MSG_TYPE_ACK, 1, JSON_EMPTY_OBJECT),
     Msg(MSG_TYPE_ACK, 1, JSON_NULL),
     Msg(MSG_TYPE_ACK, 2, <<>>),
     Msg(MSG_TYPE_INFO, 1, <<>>),
     Msg(MSG_TYPE_TELEMETRY, 2, <<>>)}

\* run_all_tests calls test_set_mode(1)
SetModes == {1}

Init ==
    /\ pc = "idle"
    /\ PureInit /\ HostInit /\ DecInit /\ ChanInit /\ bdecoder = NewDecoder /\ brets = <<>> /\ ClockInit
    /\ ScriptInit

\* the device writes the frame of message m to the channel
DeviceFrame(m) ==
    /\ rx = <<>>
    /\ Len(device_frames) < MaxFrames
    /\ rx' = FrameOf(m)
    /\ device_frames' = Append(device_frames, m)
    /\ UNCHANGED <<pc, pureVars, hostVars, decVars, garbage, bdecoder, clockVars,
                   brets,
                   scriptVars>>

\* test_set_mode: `self.serial.read(self.serial.in_waiting)`, the pending
\* input is read and dropped without passing through the decoder
Flush ==
    /\ pc = "idle"
    /\ rounds < MaxRounds
    /\ rx' = <<>>
    /\ pc' = "flushed"
    /\ UNCHANGED <<pureVars, hostVars, decVars, garbage, device_frames, bdecoder, clockVars,
                   brets,
                   scriptVars>>

\* test_set_mode: send_command(MSG_TYPE_SET_MODE, payload), then
\* wait_for_ack(seq, 2.0) entering receive_messages
SendSetMode(mode) ==
    /\ pc = "flushed"
    /\ LET r == send_command(next_seq, is_open, tx, MSG_TYPE_SET_MODE, SetModePayload(mode))
       IN  /\ ~r.raised
           /\ next_seq' = r.next_seq
           /\ tx' = r.tx
           /\ sent' = [ret |-> r.ret, raised |-> r.raised]
           /\ wait_seq' = r.ret[1]
    /\ messages' = NewMessages
    /\ got' = None
    /\ win_start' = Len(fed)
    /\ pc' = "receiving"
    /\ UNCHANGED <<pureVars, is_open, rounds, decoder, fed, rets, chanVars, bdecoder, clockVars,
                   brets,
                   scriptVars>>

\* receive_messages: the timeout has elapsed, the loop ends and wait_for_ack
\* searches the messages of this call
Timeout ==
    /\ pc = "receiving"
    /\ got' = wait_for_ack(messages, wait_seq)
    /\ rounds' = rounds + 1
    /\ pc' = "idle"
    /\ UNCHANGED <<pureVars, next_seq, is_open, sent, tx, wait_seq, messages,
                   decVars, chanVars, bdecoder, clockVars,
                   brets,
                   scriptVars>>

Next ==
    \/ \E m \in TesterMessages : DeviceFrame(m)
    \/ Flush
    \/ \E mode \in SetModes : SendSetMode(mode)
    \/ ReceiveByte
    \/ Timeout

Spec == Init /\ [][Next]_vars

---------------------------------------------------------------------------
(* Bridge specification: send_command of the bridge script called          *)
(* repeatedly, the device answering with frames                            *)

InitBridge ==
    /\ pc = "bidle"
    /\ PureInit /\ HostInit /\ DecInit /\ ChanInit /\ bdecoder = NewDecoder /\ brets = <<>> /\ ClockInit
    /\ ScriptInit

\* send_command(ser, MSG_TYPE_HELLO, {}, seq): the frame is written and a new
\* decoder created; main passes seq = 1, 2, ...
BridgeSend ==
    /\ pc = "bidle"
    /\ rounds < MaxRounds
    /\ LET f == encode_frame(MSG_TYPE_HELLO, rounds + 1, JSON_EMPTY_OBJECT)
       IN  /\ ~f.raised
           /\ tx' = tx \o f.frame
    /\ wait_seq' = rounds + 1
    /\ bdecoder' = NewDecoder
    /\ got' = None
    /\ win_start' = Len(fed)
    /\ pc' = "bwaiting"
    /\ UNCHANGED <<pureVars, next_seq, is_open, sent, rounds, messages,
                   decoder, fed, rets, chanVars, clockVars,
                   brets,
                   scriptVars>>

\* send_command: one iteration of the wait loop that finds a byte waiting;
\* after process_byte returns True the message is read from decoder.message
BridgeReceiveByte ==
    /\ pc = "bwaiting"
    /\ rx # <<>>
    /\ LET r == bridge_process_byte(bdecoder, Head(rx))
           msg == r.dec.message
       IN  /\ bdecoder' = r.dec
           /\ rets' = Append(rets, r.ret)
           /\ IF r.ret /\ msg.type = MSG_TYPE_ACK
              THEN /\ got' = bridge_ack_result(msg)
                   /\ pc' = "bidle"
                   /\ rounds' = rounds + 1
              ELSE UNCHANGED <<got, pc, rounds>>
    /\ fed' = Append(fed, Head(rx))
    /\ rx' = Tail(rx)
    /\ UNCHANGED <<pureVars, next_seq, is_open, sent, tx, wait_seq, messages,
                   decoder, win_start, garbage, device_frames, clockVars,
                   brets,
                   scriptVars>>

\* send_command: five seconds have passed, `return None`
BridgeTimeout ==
    /\ pc = "bwaiting"
    /\ got' = None
    /\ rounds' = rounds + 1
    /\ pc' = "bidle"
    /\ UNCHANGED <<pureVars, next_seq, is_open, sent, tx, wait_seq, messages,
                   decVars, chanVars, bdecoder, clockVars,
                   brets,
                   scriptVars>>

NextBridge ==
    \/ \E m \in TesterMessages : DeviceFrame(m)
    \/ BridgeSend
    \/ BridgeReceiveByte
    \/ BridgeTimeout

SpecBridge == InitBridge /\ [][NextBridge]_vars

---------------------------------------------------------------------------
(* Await specification: RobotTester.wait_for_ack called repeatedly, with   *)
(* the clock, on a channel that is silent or carries noise without end or  *)
(* frames                                                                  *)

AwaitSeqs == {1, 2}

\* byte values of the noise: a sync byte and a byte that is none
AwaitNoiseBytes == {PROTOCOL_HEADER_0, 0}

\* the messages the device transmits
AwaitMessages == {Msg(MSG_TYPE_ACK, 1, <<>>), Msg(MSG_TYPE_INFO, 2, <<>>)}

InitAwait ==
    /\ pc = "idle"
    /\ PureInit /\ HostInit /\ DecInit /\ ChanInit /\ bdecoder = NewDecoder /\ brets = <<>> /\ ClockInit
    /\ ScriptInit

\* a noise byte arrives; of all the noise only the first MaxNoise bytes are
\* kept in `garbage`
AwaitNoise(b) ==
    /\ rx = <<>>
    /\ rx' = <<b>>
    /\ garbage' = IF Len(garbage) < MaxNoise THEN Append(garbage, b) ELSE garbage
    /\ UNCHANGED <<pc, pureVars, hostVars, decVars, device_frames, bdecoder, clockVars,
                   brets,
                   scriptVars>>

\* wait_for_ack(seq, timeout) is called and receive_messages entered:
\* `start_time = time.time()`, `messages = []`
AwaitEnter(seq) ==
    /\ pc = "idle"
    /\ rounds < MaxRounds
    /\ wait_seq' = seq
    /\ start_time' = now
    /\ messages' = NewMessages
    /\ got' = None
    /\ pc' = "polling"
    /\ UNCHANGED <<pureVars, next_seq, is_open, sent, tx, rounds,
                   decVars, chanVars, bdecoder, now,
                   brets,
                   scriptVars>>

\* one iteration of the loop with a byte waiting
PollReceive ==
    /\ pc = "polling"
    /\ loop_running(now, start_time, AwaitTicks)
    /\ is_open
    /\ rx # <<>>
    /\ LET r == receive_byte(decoder, messages, Head(rx))
       IN  /\ decoder' = r.dec
           /\ messages' = r.messages
    /\ rx' = Tail(rx)
    /\ UNCHANGED <<pc, pureVars, next_seq, is_open, sent, tx, wait_seq, rounds, got,
                   fed, rets, win_start, garbage, device_frames, bdecoder, clockVars,
                   brets,
                   scriptVars>>

\* one iteration of the loop with nothing waiting: `time.sleep(0.01)`
PollSleep ==
    /\ pc = "polling"
    /\ loop_running(now, start_time, AwaitTicks)
    /\ rx = <<>>
    /\ now' = now + 1
    /\ UNCHANGED <<pc, pureVars, hostVars, decVars, chanVars, bdecoder, start_time,
                   brets,
                   scriptVars>>

\* the clock advances while the loop runs
Tick ==
    /\ pc = "polling"
    /\ now - start_time < AwaitTicks
    /\ now' = now + 1
    /\ UNCHANGED <<pc, pureVars, hostVars, decVars, chanVars, bdecoder, start_time,
                   brets,
                   scriptVars>>

\* the loop condition is found false: receive_messages returns and
\* wait_for_ack searches the messages
AwaitReturn ==
    /\ pc = "polling"
    /\ ~loop_running(now, start_time, AwaitTicks)
    /\ got' = wait_for_ack(messages, wait_seq)
    /\ rounds' = rounds + 1
    /\ pc' = "idle"
    /\ UNCHANGED <<pureVars, next_seq, is_open, sent, tx, wait_seq, messages,
                   decVars, chanVars, bdecoder, clockVars,
                   brets,
                   scriptVars>>

NextAwait ==
    \/ \E b \in AwaitNoiseBytes : AwaitNoise(b)
    \/ \E m \in AwaitMessages : DeviceFrame(m)
    \/ \E seq \in AwaitSeqs : AwaitEnter(seq)
    \/ PollReceive
    \/ PollSleep
    \/ Tick
    \/ AwaitReturn

\* the clock advances and the script keeps running
SpecAwait ==
    InitAwait /\ [][NextAwait]_vars /\ WF_vars(Tick) /\ WF_vars(AwaitReturn)

---------------------------------------------------------------------------
(* Decoder specification: one ProtocolDecoder fed a byte stream through    *)
(* process_byte, with get_message called at any moment or not at all       *)

\* bytes that open a stream: the sync bytes, the largest and the smallest
\* valid length
PrefixBytes == {PROTOCOL_HEADER_0, PROTOCOL_HEADER_1, 2 + PROTOCOL_MAX_PAYLOAD_SIZE, 2}

\* byte the rest of a long stream repeats
TailBytes == {PROTOCOL_HEADER_0, 0}

\* enough bytes to complete a frame of the largest length and go on
TailLen == PROTOCOL_MAX_PAYLOAD_SIZE + 6

\* a few chosen bytes followed by a long run of one byte
LongStreams ==
    {p \o [i \in 1..TailLen |-> b] :
        p \in SeqsUpTo(PrefixBytes, MaxPrefix), b \in TailBytes}

\* two valid frames with nothing between them
FramePairs ==
    {FrameOf(m1) \o FrameOf(m2) : m1 \in StreamMessages, m2 \in StreamMessages}

\* a sync byte followed by every byte value, and both sync bytes followed by
\* every byte value
HeaderStreams ==
    {<<PROTOCOL_HEADER_0, v>> : v \in 0..255}
        \cup {<<PROTOCOL_HEADER_0, PROTOCOL_HEADER_1, v>> : v \in 0..255}

DecoderStreams == LongStreams \cup FramePairs \cup HeaderStreams

InitDecoder ==
    /\ pc = "decoding"
    /\ rx \in DecoderStreams
    /\ garbage = <<>> /\ device_frames = <<>>
    /\ PureInit /\ HostInit /\ DecInit /\ bdecoder = NewDecoder /\ brets = <<>> /\ ClockInit
    /\ ScriptInit

\* decoder.process_byte(byte) on the next byte of the stream
ProcessByte ==
    /\ pc = "decoding"
    /\ rx # <<>>
    /\ LET r == process_byte(decoder, Head(rx))
       IN  /\ decoder' = r.dec
           /\ rets' = Append(rets, r.ret)
    /\ fed' = Append(fed, Head(rx))
    /\ rx' = Tail(rx)
    /\ UNCHANGED <<pc, pureVars, hostVars, win_start, garbage, device_frames,
                   bdecoder, clockVars,
                   brets,
                   scriptVars>>

\* decoder.get_message()
FetchMessage ==
    /\ pc = "decoding"
    /\ got' = get_message(decoder).msg
    /\ decoder' = get_message(decoder).dec
    /\ UNCHANGED <<pc, pureVars, next_seq, is_open, sent, tx, wait_seq, rounds, messages,
                   fed, rets, win_start, chanVars, bdecoder, clockVars,
                   brets,
                   scriptVars>>

NextDecoder == ProcessByte \/ FetchMessage

SpecDecoder == InitDecoder /\ [][NextDecoder]_vars

---------------------------------------------------------------------------
(* Rejection specification: the tester of Spec with a device that answers  *)
(* with rejections                                                         *)

RejectMessages ==
    {Msg(MSG_TYPE_ACK, 1, JSON_REJECT),
     Msg(MSG_TYPE_ACK, 2, JSON_REJECT),
     Msg(MSG_TYPE_ACK, 1, JSON_NULL)}

NextReject ==
    \/ \E m \in RejectMessages : DeviceFrame(m)
    \/ Flush
    \/ \E mode \in SetModes : SendSetMode(mode)
    \/ ReceiveByte
    \/ Timeout

SpecReject == Init /\ [][NextReject]_vars

---------------------------------------------------------------------------
(* Corruption specification: a frame from encode, one bit of it flipped,   *)
(* fed to a new decoder                                                    *)

CorruptInputs ==
    [msg_type : {MSG_TYPE_HELLO, MSG_TYPE_ACK, PROTOCOL_HEADER_0},
     seq : {1, PROTOCOL_HEADER_1, 255},
     payload : SeqsUpTo({123, PROTOCOL_HEADER_0}, MaxPayloadLen)]

\* frame f with bit `bit` of its k-th byte inverted
FlipBit(f, k, bit) == [f EXCEPT ![k] = BitXor(f[k], 2 ^ bit)]

InitCorrupt ==
    /\ pc = "start"
    /\ input \in CorruptInputs
    /\ frame = Raised /\ bframe = Raised
    /\ data = <<>> /\ crc_table = CRC16_INITIAL /\ crc_bitwise = CRC16_INITIAL
    /\ last_seq = 0 /\ calls = 0
    /\ HostInit /\ DecInit /\ ChanInit /\ bdecoder = NewDecoder /\ brets = <<>> /\ ClockInit
    /\ ScriptInit

\* one bit of the TYPE, SEQ, PAYLOAD or CRC bytes is inverted on the way to
\* the decoder
Corrupt(k, bit) ==
    /\ pc = "encoded"
    /\ ~frame.raised
    /\ k \in 4..Len(frame.frame)
    /\ rx' = FlipBit(frame.frame, k, bit)
    /\ pc' = "decoding"
    /\ UNCHANGED <<pureVars, hostVars, decVars, garbage, device_frames,
                   bdecoder, clockVars,
                   brets,
                   scriptVars>>

NextCorrupt ==
    \/ Encode
    \/ \E k \in 4..(MaxPayloadLen + 7), bit \in 0..7 : Corrupt(k, bit)
    \/ ProcessByte
    \/ FetchMessage

SpecCorrupt == InitCorrupt /\ [][NextCorrupt]_vars

---------------------------------------------------------------------------
(* Framing specification: a valid frame with one bit of a sync byte or of  *)
(* the LEN byte inverted, fed to a fresh ProtocolDecoder                   *)

\* a complete valid frame, carried as the payload of another frame
EmbeddedFrame == encode(MSG_TYPE_ACK, 1, <<>>).frame

FramingInputs ==
    [msg_type : {MSG_TYPE_HELLO, PROTOCOL_HEADER_0},
     seq : {1, PROTOCOL_HEADER_1},
     payload : SeqsUpTo({123, PROTOCOL_HEADER_0, PROTOCOL_HEADER_1}, MaxPayloadLen)
                 \cup {EmbeddedFrame}]

InitFraming ==
    /\ pc = "start"
    /\ input \in FramingInputs
    /\ frame = Raised /\ bframe = Raised
    /\ data = <<>> /\ crc_table = CRC16_INITIAL /\ crc_bitwise = CRC16_INITIAL
    /\ last_seq = 0 /\ calls = 0
    /\ HostInit /\ DecInit /\ ChanInit /\ bdecoder = NewDecoder /\ brets = <<>> /\ ClockInit
    /\ ScriptInit

\* one bit of a sync byte or of the LEN byte is inverted on the way to the
\* decoder
CorruptFraming(k, bit) ==
    /\ pc = "encoded"
    /\ ~frame.raised
    /\ k \in 1..3
    /\ rx' = FlipBit(frame.frame, k, bit)
    /\ pc' = "decoding"
    /\ UNCHANGED <<pureVars, hostVars, decVars, garbage, device_frames,
                   bdecoder, brets, clockVars,
                   scriptVars>>

NextFraming ==
    \/ Encode
    \/ \E k \in 1..3, bit \in 0..7 : CorruptFraming(k, bit)
    \/ ProcessByte
    \/ FetchMessage

SpecFraming == InitFraming /\ [][NextFraming]_vars

---------------------------------------------------------------------------
(* Pair specification: a new uno ProtocolDecoder and a new bridge          *)
(* ProtocolDecoder fed the same byte stream                                *)

\* bytes that precede the frame: the sync bytes and a valid length
LeadBytes == {PROTOCOL_HEADER_0, PROTOCOL_HEADER_1, 5}

\* the messages whose frames end the streams
PairMessages ==
    {Msg(MSG_TYPE_ACK, 1, <<>>),
     Msg(MSG_TYPE_INFO, 2, <<PROTOCOL_HEADER_0, PROTOCOL_HEADER_1>>)}

PairStreams ==
    {p \o FrameOf(m) : p \in SeqsUpTo(LeadBytes, MaxLead), m \in PairMessages}

InitPair ==
    /\ pc = "pair"
    /\ rx \in PairStreams
    /\ garbage = <<>> /\ device_frames = <<>>
    /\ PureInit /\ HostInit /\ DecInit /\ bdecoder = NewDecoder /\ brets = <<>> /\ ClockInit
    /\ ScriptInit

\* the next byte of the stream is given to process_byte of each decoder
PairProcessByte ==
    /\ pc = "pair"
    /\ rx # <<>>
    /\ LET r == process_byte(decoder, Head(rx))
           br == bridge_process_byte(bdecoder, Head(rx))
       IN  /\ decoder' = r.dec
           /\ rets' = Append(rets, r.ret)
           /\ bdecoder' = br.dec
           /\ brets' = Append(brets, br.ret)
    /\ fed' = Append(fed, Head(rx))
    /\ rx' = Tail(rx)
    /\ UNCHANGED <<pc, pureVars, hostVars, win_start, garbage, device_frames,
                   clockVars,
                   scriptVars>>

NextPair == PairProcessByte

SpecPair == InitPair /\ [][NextPair]_vars

---------------------------------------------------------------------------
(* Scripts specification: the encoders of the repository applied to the    *)
(* same arguments, and decode_frame of test_led_diagnostic.py applied to   *)
(* the frame its own encode_frame returned                                 *)

ScriptInputs ==
    [msg_type : {0, MSG_TYPE_ACK, 255},
     seq : {1, 255},
     payload : SeqsUpTo({123, PROTOCOL_HEADER_0}, MaxPayloadLen) \cup LongPayloads]

InitScripts ==
    /\ pc = "start"
    /\ input \in ScriptInputs
    /\ frame = Raised /\ bframe = Raised
    /\ data = <<>> /\ crc_table = CRC16_INITIAL /\ crc_bitwise = CRC16_INITIAL
    /\ last_seq = 0 /\ calls = 0
    /\ HostInit /\ DecInit /\ ChanInit /\ bdecoder = NewDecoder /\ brets = <<>> /\ ClockInit
    /\ ScriptInit

\* frame = encode_frame(msg_type, seq, payload) in the named script
ScriptEncodeFrame(name) ==
    /\ pc = "bencoded"
    /\ sframes[name] = NotCalled
    /\ sframes' = [sframes EXCEPT
                     ![name] = script_encode_frame(name, input.msg_type, input.seq,
                                                   input.payload)]
    /\ UNCHANGED <<pc, pureVars, hostVars, decVars, chanVars, bdecoder, brets,
                   clockVars, decoded>>

\* decoded = decode_frame(frame) on the frame test_led_diagnostic.py encoded,
\* as read_responses calls it on a buffer cut to the frame length
DecodeFrame ==
    /\ pc = "bencoded"
    /\ sframes["test_led_diagnostic"] # NotCalled
    /\ ~sframes["test_led_diagnostic"].raised
    /\ decoded' = decode_frame(sframes["test_led_diagnostic"].frame)
    /\ pc' = "decoded"
    /\ UNCHANGED <<pureVars, hostVars, decVars, chanVars, bdecoder, brets,
                   clockVars, sframes>>

NextScripts ==
    \/ Encode
    \/ EncodeFrame
    \/ \E name \in ScriptNames : ScriptEncodeFrame(name)
    \/ DecodeFrame

SpecScripts == InitScripts /\ [][NextScripts]_vars

---------------------------------------------------------------------------
(* Channel specification: RobotTester.receive_messages reads a byte stream *)
(* through the one decoder of the tester, get_message following every True *)

InitChannel ==
    /\ pc = "receiving"
    /\ rx \in DecoderStreams
    /\ garbage = <<>> /\ device_frames = <<>>
    /\ PureInit /\ HostInit /\ DecInit /\ bdecoder = NewDecoder /\ brets = <<>> /\ ClockInit
    /\ ScriptInit

NextChannel == ReceiveByte

SpecChannel == InitChannel /\ [][NextChannel]_vars

---------------------------------------------------------------------------
(* Windows specification: RobotTester.test_servo called repeatedly on one  *)
(* tester; nothing is flushed between the calls, the device transmitting   *)
(* frames at any moment                                                    *)

\* json.dumps({'angle': 90}).encode('utf-8')
ServoPayload == <<123, 34, 97, 110, 103, 108, 101, 34, 58, 32, 57, 48, 125>>

\* the messages the device transmits
WindowMessages ==
    {Msg(MSG_TYPE_ACK, 1, JSON_EMPTY_OBJECT),
     Msg(MSG_TYPE_INFO, 1, <<PROTOCOL_HEADER_0, PROTOCOL_HEADER_1>>)}

\* test_servo: send_command(MSG_TYPE_SERVO, payload), then wait_for_ack(seq,
\* 2.0) entering receive_messages, which reads through self.decoder
TestServo ==
    /\ pc = "idle"
    /\ rounds < MaxRounds
    /\ LET r == send_command(next_seq, is_open, tx, MSG_TYPE_SERVO, ServoPayload)
       IN  /\ ~r.raised
           /\ next_seq' = r.next_seq
           /\ tx' = r.tx
           /\ sent' = [ret |-> r.ret, raised |-> r.raised]
           /\ wait_seq' = r.ret[1]
    /\ decoder' = self_decoder(decoder)
    /\ messages' = NewMessages
    /\ got' = None
    /\ win_start' = Len(fed)
    /\ pc' = "receiving"
    /\ UNCHANGED <<pureVars, is_open, rounds, fed, rets, chanVars, bdecoder, clockVars,
                   brets,
                   scriptVars>>

NextWindows ==
    \/ \E m \in WindowMessages : DeviceFrame(m)
    \/ TestServo
    \/ ReceiveByte
    \/ Timeout

SpecWindows == Init /\ [][NextWindows]_vars

---------------------------------------------------------------------------
(* Send specification: send_command called repeatedly on one RobotTester   *)
(* whose channel is absent at first, then opened and closed at any moment  *)

\* the commands sent: send_command(MSG_TYPE_HELLO) with the default payload
\* b'{}', and the command of test_servo
SendInputs ==
    {[msg_type |-> MSG_TYPE_HELLO, payload |-> JSON_EMPTY_OBJECT],
     [msg_type |-> MSG_TYPE_SERVO, payload |-> ServoPayload]}

\* RobotTester.__init__: `self.serial = None`
InitSend ==
    /\ pc = "host"
    /\ PureInit
    /\ next_seq = 1 /\ is_open = FALSE /\ sent = NotSent /\ tx = <<>>
    /\ wait_seq = 0 /\ rounds = 0 /\ messages = <<>> /\ got = None
    /\ DecInit /\ ChanInit /\ bdecoder = NewDecoder /\ brets = <<>> /\ ClockInit
    /\ ScriptInit

\* RobotTester.connect, the port opening
Connect ==
    /\ pc = "host"
    /\ ~is_open
    /\ is_open' = TRUE
    /\ UNCHANGED <<pc, pureVars, next_seq, sent, tx, wait_seq, rounds, messages, got,
                   decVars, chanVars, bdecoder, brets, clockVars, scriptVars>>

\* RobotTester.disconnect
Disconnect ==
    /\ pc = "host"
    /\ is_open
    /\ is_open' = FALSE
    /\ UNCHANGED <<pc, pureVars, next_seq, sent, tx, wait_seq, rounds, messages, got,
                   decVars, chanVars, bdecoder, brets, clockVars, scriptVars>>

\* tester.send_command(msg_type, payload); rounds counts the calls
HostSend(c) ==
    /\ pc = "host"
    /\ rounds < MaxSends
    /\ LET r == send_command(next_seq, is_open, tx, c.msg_type, c.payload)
       IN  /\ next_seq' = r.next_seq
           /\ tx' = r.tx
           /\ sent' = [ret |-> r.ret, raised |-> r.raised]
    /\ rounds' = rounds + 1
    /\ UNCHANGED <<pc, pureVars, is_open, wait_seq, messages, got,
                   decVars, chanVars, bdecoder, brets, clockVars, scriptVars>>

NextSend ==
    \/ Connect
    \/ Disconnect
    \/ \E c \in SendInputs : HostSend(c)

SpecSend == InitSend /\ [][NextSend]_vars

---------------------------------------------------------------------------
(* Properties checked under SpecCrc *)

\* C7: for every byte string, the table-driven calculate_crc16 (uno) and the
\* bit-wise calculate_crc16 (bridge) return the same 16-bit value.
CrcEquivalence ==
    /\ crc_table = crc_bitwise
    /\ crc_table \in 0..65535

CrcEquivalenceWitness ==
    /\ Len(data) >= 3
    /\ data[1] # data[2]
    /\ crc_table = crc_bitwise
    /\ crc_table # CRC16_INITIAL

---------------------------------------------------------------------------
(* Properties checked under SpecCodec *)

InputMessage ==
    [type |-> input.msg_type, seq |-> input.seq, payload |-> input.payload,
     valid |-> TRUE]

\* C1: feeding encode(type, seq, payload), payload of 0..64 bytes, byte by
\* byte into a fresh decoder, process_byte returns False on every byte but
\* the last and True on the last, and get_message returns the input message.
RoundTrip ==
    (Len(input.payload) <= PROTOCOL_MAX_PAYLOAD_SIZE /\ pc \in {"bencoded", "done"}) =>
        /\ ~frame.raised
        /\ \A i \in 1..Len(rets) : rets[i] = (i = Len(frame.frame))
        /\ pc = "done" => got = Some(InputMessage)

RoundTripWitness ==
    /\ pc = "done"
    /\ Len(input.payload) = PROTOCOL_MAX_PAYLOAD_SIZE
    /\ Len(rets) = PROTOCOL_MAX_PAYLOAD_SIZE + 7
    /\ got = Some(InputMessage)

\* the layout AA 55 LEN TYPE SEQ PAYLOAD CRC_LOW CRC_HIGH of a frame f, with
\* the CRC of LEN..PAYLOAD computed bit by bit
HasLayout(f) ==
    LET n == Len(input.payload)
        crc == bridge_calculate_crc16(<<n + 2, input.msg_type, input.seq>> \o input.payload)
    IN  /\ Len(f) = n + 7
        /\ f[1] = 170 /\ f[2] = 85
        /\ f[3] = n + 2
        /\ f[4] = input.msg_type
        /\ f[5] = input.seq
        /\ SubSeq(f, 6, 5 + n) = input.payload
        /\ f[n + 6] = crc % 256
        /\ f[n + 7] = crc \div 256

IsHelloExample ==
    input = [msg_type |-> 1, seq |-> 1, payload |-> <<123, 125>>]

\* C4: for a payload of n <= 64 bytes both encoders return the n+7 bytes
\* AA 55 n+2 type seq payload crc_low crc_high; encode(0x01, 1, b'{}') is
\* AA 55 04 01 01 7B 7D 17 A2.
FrameLayout ==
    Len(input.payload) <= PROTOCOL_MAX_PAYLOAD_SIZE =>
        /\ pc = "encoded" =>
              /\ ~frame.raised
              /\ HasLayout(frame.frame)
              /\ IsHelloExample => frame.frame = <<170, 85, 4, 1, 1, 123, 125, 23, 162>>
        /\ (pc = "bencoded" /\ fed = <<>>) =>
              /\ ~bframe.raised
              /\ HasLayout(bframe.frame)

FrameLayoutWitness ==
    /\ pc = "bencoded"
    /\ fed = <<>>
    /\ IsHelloExample
    /\ frame.frame = <<170, 85, 4, 1, 1, 123, 125, 23, 162>>
    /\ bframe.frame = frame.frame

\* C5: for a payload longer than 64 bytes encode and encode_frame raise and
\* return no frame, and send_command writes no byte to the serial channel.
PayloadTooLarge ==
    Len(input.payload) > PROTOCOL_MAX_PAYLOAD_SIZE =>
        /\ pc \in {"encoded", "bencoded"} => frame = Raised
        /\ pc = "bencoded" => bframe = Raised
        /\ pc = "sent" => (sent.raised /\ sent.ret = None /\ tx = <<>>)

PayloadTooLargeWitness ==
    /\ pc = "sent"
    /\ is_open
    /\ Len(input.payload) = PROTOCOL_MAX_PAYLOAD_SIZE + 1
    /\ sent.raised
    /\ tx = <<>>

---------------------------------------------------------------------------
(* Properties checked under SpecSeq *)

\* C6: get_next_seq returns 1 on the first call and the previous value plus
\* one afterwards, except that the call after the one that returned 255
\* returns 1; it never returns 0 nor a value above 255.
SequenceNumbers ==
    calls > 0 =>
        /\ last_seq \in 1..255
        /\ last_seq = ((calls - 1) % 255) + 1

---------------------------------------------------------------------------
(* Properties checked under SpecStream *)

\* number of bytes of the first k transmitted frames
RECURSIVE FrameEnd(_)
FrameEnd(k) == IF k = 0 THEN 0 ELSE FrameEnd(k - 1) + Len(device_frames[k].payload) + 7

\* number of transmitted frames whose last byte has been processed
FramesDone == Cardinality({k \in 1..Len(device_frames) : FrameEnd(k) <= Len(fed) - Len(garbage)})

\* C2: for every garbage byte sequence G and every valid frame F, feeding G
\* followed immediately by F into a new decoder yields exactly one decoded
\* message, the message of F.
ResyncAfterNoise ==
    (Len(device_frames) = 1 /\ rx = <<>>) => messages = <<device_frames[1]>>

\* C3: valid frames concatenated with nothing between them: process_byte
\* returns True exactly on the last byte of each frame, and receive_messages
\* appends the frames' messages in arrival order.
BackToBack ==
    garbage = <<>> =>
        /\ \A j \in 1..Len(rets) :
              rets[j] = (\E k \in 1..Len(device_frames) : FrameEnd(k) = j)
        /\ messages = [k \in 1..FramesDone |-> device_frames[k]]

BackToBackWitness ==
    /\ garbage = <<>>
    /\ rx = <<>>
    /\ Len(device_frames) = 2
    /\ device_frames[1] # device_frames[2]
    /\ messages = device_frames
    /\ rets[Len(rets)]

---------------------------------------------------------------------------
(* Properties checked under Spec *)

\* f is a well-formed frame: AA 55 LEN TYPE SEQ PAYLOAD CRC_LOW CRC_HIGH
\* with LEN in 2..66, LEN-2 payload bytes and the CRC of LEN..PAYLOAD
WellFormed(f) ==
    /\ Len(f) >= 7
    /\ f[1] = PROTOCOL_HEADER_0
    /\ f[2] = PROTOCOL_HEADER_1
    /\ f[3] \in 2..(2 + PROTOCOL_MAX_PAYLOAD_SIZE)
    /\ Len(f) = f[3] + 5
    /\ bridge_calculate_crc16(SubSeq(f, 3, Len(f) - 2)) = f[Len(f) - 1] + (256 * f[Len(f)])

IsAckFrame(f, seq) == WellFormed(f) /\ f[4] = MSG_TYPE_ACK /\ f[5] = seq

\* a wait_for_ack call has returned
Returned_wait_for_ack == pc = "idle" /\ rounds > 0

\* C8: wait_for_ack(seq) returns a non-None acknowledgement only if during
\* that call the decoder completed a CRC-valid frame of type ACK (0x82)
\* whose sequence equals seq.
AckSoundness ==
    (Returned_wait_for_ack /\ got # None) =>
        \E j \in (win_start + 1)..Len(fed) :
            /\ rets[j]
            /\ \E i \in 1..j : IsAckFrame(SubSeq(fed, i, j), wait_seq)

AckSoundnessWitness ==
    /\ Returned_wait_for_ack
    /\ got # None
    /\ wait_seq = 2
    /\ Len(messages) = 2
    /\ messages[1].type = MSG_TYPE_ACK
    /\ messages[1].seq = 1

\* C9: whenever a complete CRC-valid ACK frame carrying the awaited sequence
\* is read from the channel during the call, wait_for_ack returns a non-None
\* acknowledgement, whatever the payload and the decoder's earlier state.
AckCompleteness ==
    (/\ Returned_wait_for_ack
     /\ \E i \in (win_start + 1)..Len(fed) : \E j \in i..Len(fed) :
            IsAckFrame(SubSeq(fed, i, j), wait_seq))
    => got # None

---------------------------------------------------------------------------
(* Properties checked under SpecBridge *)

\* C10: when a CRC-valid ACK frame has been completely read from the channel
\* during the call, the bridge send_command returns a non-None result that
\* carries that ACK's seq; it returns None only when no ACK frame was read.
BridgeAcknowledged ==
    (pc = "bidle" /\ rounds > 0) =>
        \A i \in (win_start + 1)..Len(fed) : \A j \in i..Len(fed) :
            (WellFormed(SubSeq(fed, i, j)) /\ fed[i + 3] = MSG_TYPE_ACK) =>
                (got # None /\ got[1].seq = fed[i + 4])

---------------------------------------------------------------------------
(* Properties checked under SpecAwait *)

\* C11: whatever the channel does (silence, noise without end, partial
\* frames, valid frames), a wait_for_ack call that has entered its receive
\* loop eventually returns, given that the clock advances; and on a channel
\* that has never produced a byte it returns None.
AwaitReturns ==
    /\ (pc = "polling") ~> (pc = "idle")
    /\ []((pc = "idle" /\ rounds > 0 /\ garbage = <<>> /\ device_frames = <<>>)
            => got = None)

\* a call has returned at its deadline on a channel that carried noise
AwaitReturnsWitness ==
    /\ pc = "idle"
    /\ rounds = 1
    /\ now - start_time >= AwaitTicks
    /\ Len(garbage) = MaxNoise

---------------------------------------------------------------------------
(* Properties checked under SpecDecoder *)

\* the size of one maximal frame: 2 sync + 1 LEN + 66 + 2 CRC
MaxFrameLen == 2 + 1 + (2 + PROTOCOL_MAX_PAYLOAD_SIZE) + 2

DecoderStates ==
    {"WAIT_HEADER_0", "WAIT_HEADER_1", "WAIT_LEN", "WAIT_TYPE", "WAIT_SEQ",
     "WAIT_PAYLOAD", "WAIT_CRC_0", "WAIT_CRC_1"}

\* C12: for every byte sequence fed one byte at a time into process_byte, no
\* call raises (each call returns True or False and leaves the decoder in one
\* of its states) and the accumulation buffer never holds more than 71 bytes.
BoundedBuffer ==
    /\ Len(decoder.buffer) <= MaxFrameLen
    /\ decoder.state \in DecoderStates
    /\ \A i \in 1..Len(rets) : rets[i] \in BOOLEAN

\* a frame of the largest length is one byte from completion
BoundedBufferWitness ==
    /\ decoder.expected_len = 2 + PROTOCOL_MAX_PAYLOAD_SIZE
    /\ decoder.state = "WAIT_CRC_1"
    /\ Len(decoder.buffer) = MaxFrameLen - 1

\* the buffer, completed by the byte about to be processed, fails the CRC
\* comparison: the CRC over LEN..PAYLOAD differs from the stored one
CrcMismatchNext ==
    LET b == Append(decoder.buffer, Head(rx))
        n == Len(b)
    IN  /\ decoder.state = "WAIT_CRC_1"
        /\ rx # <<>>
        /\ bridge_calculate_crc16(SubSeq(b, 3, n - 2)) # b[n - 1] + (256 * b[n])

\* C14: when the second CRC byte arrives and the recomputed CRC differs from
\* the stored one, process_byte returns False, get_message returns None and
\* the decoder is reset: WAIT_HEADER_0 with an empty buffer, or, when that
\* byte is 0xAA, WAIT_HEADER_1 with the buffer [0xAA].
SilentDiscard ==
    [][(CrcMismatchNext /\ fed' # fed) =>
          /\ rets'[Len(rets')] = FALSE
          /\ get_message(decoder').msg = None
          /\ IF Head(rx) = PROTOCOL_HEADER_0
             THEN decoder'.state = "WAIT_HEADER_1" /\ decoder'.buffer = <<PROTOCOL_HEADER_0>>
             ELSE decoder'.state = "WAIT_HEADER_0" /\ decoder'.buffer = <<>>]_vars

\* the frame AA 55 02 AA AA AA AA has just been discarded at its last byte
SilentDiscardWitness ==
    /\ fed = <<PROTOCOL_HEADER_0, PROTOCOL_HEADER_1, 2, PROTOCOL_HEADER_0,
               PROTOCOL_HEADER_0, PROTOCOL_HEADER_0, PROTOCOL_HEADER_0>>
    /\ rets[7] = FALSE
    /\ decoder.state = "WAIT_HEADER_1"

\* the last byte processed completed the well-formed frame of length LEN + 5
\* that ends there
JustEmitted(len) ==
    /\ Len(fed) >= len + 5
    /\ rets[Len(fed)]
    /\ WellFormed(SubSeq(fed, Len(fed) - len - 4, Len(fed)))

\* C15: every message the decoder emits carries exactly the LEN-2 payload
\* bytes of its own frame, whether or not get_message was called for the
\* messages decoded before it.
OwnPayload ==
    \A len \in 2..(2 + PROTOCOL_MAX_PAYLOAD_SIZE) :
        (JustEmitted(len) /\ decoder.message.valid) =>
            decoder.message.payload = SubSeq(fed, Len(fed) - len + 1, Len(fed) - 2)

---------------------------------------------------------------------------
(* Properties checked under SpecStream: what process_byte emits *)

\* the message receive_messages obtained for the True returned at byte i
EmittedAt(i) == messages[Cardinality({j \in 1..i : rets[j]})]

\* C13: process_byte returns True only on a byte that completes a contiguous
\* run AA 55 LEN TYPE SEQ PAYLOAD CRC_LOW CRC_HIGH of LEN+5 input bytes with
\* 2 <= LEN <= 66 and a matching CRC16, and the emitted message's type and
\* seq are that run's TYPE and SEQ bytes.
OnlyWellFormed ==
    \A i \in 1..Len(rets) :
        rets[i] =>
            \E len \in 2..(2 + PROTOCOL_MAX_PAYLOAD_SIZE) :
                /\ i >= len + 5
                /\ WellFormed(SubSeq(fed, i - len - 4, i))
                /\ EmittedAt(i).type = fed[i - len - 1]
                /\ EmittedAt(i).seq = fed[i - len]

\* a frame has been emitted behind noise
OnlyWellFormedWitness ==
    /\ Len(garbage) = MaxNoise
    /\ Len(messages) = 1
    /\ rx = <<>>
    /\ rets[Len(rets)]

---------------------------------------------------------------------------
(* Properties checked under Spec: the transaction layer *)

\* a receive loop of wait_for_ack is running or has returned
InWindow == pc \in {"receiving", "idle"} /\ wait_seq > 0

\* the bytes of the current window on which process_byte returned True
WindowEmits == {i \in (win_start + 1)..Len(fed) : rets[i]}

\* C16: a message decoded during one wait_for_ack call that is not the
\* awaited ACK is dropped by that call: the list a call searches holds the
\* messages decoded during that call and no other, so a message of an
\* earlier call is never returned as the acknowledgement of a later one.
NoRequeue ==
    InWindow =>
        /\ Len(messages) = Cardinality(WindowEmits)
        /\ (Returned_wait_for_ack /\ got # None) =>
              \E k \in 1..Len(messages) :
                  messages[k].type = MSG_TYPE_ACK /\ messages[k].seq = wait_seq

\* the second call awaited seq 2 and timed out although an ACK with seq 2
\* had been decoded, and dropped, by the first call
NoRequeueWitness ==
    /\ Returned_wait_for_ack
    /\ rounds = 2
    /\ wait_seq = 2
    /\ got = None
    /\ \E i \in 7..win_start : rets[i] /\ IsAckFrame(SubSeq(fed, i - 6, i), 2)

\* C17: wait_for_ack stops polling as soon as the ACK with the awaited
\* sequence has been decoded: no byte is read by that call after the byte
\* that completed the awaited ACK.
StopsAtMatch ==
    InWindow =>
        \A i \in WindowEmits :
            (\E k \in 1..i : IsAckFrame(SubSeq(fed, k, i), wait_seq)) => Len(fed) = i

\* C18: send_command writes the encoded frame to the channel exactly once
\* and neither reads the channel nor changes the decoder; the receive loop
\* and the return of wait_for_ack, timed out or not, write nothing.
OneFramePerSend ==
    [][/\ (pc = "flushed" /\ pc' = "receiving") =>
              /\ \E mode \in SetModes :
                    tx' = tx \o encode(MSG_TYPE_SET_MODE, next_seq, SetModePayload(mode)).frame
              /\ rx' = rx
              /\ decoder' = decoder
              /\ fed' = fed
       /\ pc # "flushed" => tx' = tx]_vars

\* two commands were sent and both timed out: two frames were written
OneFramePerSendWitness ==
    /\ Returned_wait_for_ack
    /\ rounds = 2
    /\ got = None
    /\ device_frames = <<>>
    /\ Len(tx) = 2 * (Len(SetModePayload(1)) + 7)

---------------------------------------------------------------------------
(* Properties checked under SpecReject *)

\* the awaited ACKs among the messages of the call that has returned
AwaitedAcks ==
    {k \in 1..Len(messages) :
        messages[k].type = MSG_TYPE_ACK /\ messages[k].seq = wait_seq}

\* C19: when the awaited ACK decoded in the window carries {ok: false,
\* err: e}, wait_for_ack returns that data (ok false, err e) and the test
\* method returns False; wait_for_ack returns None only when no ACK with
\* the awaited sequence was decoded in the window.
RejectionDistinct ==
    Returned_wait_for_ack =>
        /\ (AwaitedAcks # {} /\
            messages[CHOOSE k \in AwaitedAcks : \A j \in AwaitedAcks : k <= j].payload
                = JSON_REJECT) =>
              /\ got = Some(Dict(TRUE, FALSE, TRUE, 1))
              /\ test_set_mode_result(got) = FALSE
        /\ got = None => AwaitedAcks = {}

---------------------------------------------------------------------------
(* Properties checked under SpecCorrupt *)

\* C20: for every valid frame and every single bit flipped in its TYPE, SEQ,
\* PAYLOAD or CRC bytes, feeding the corrupted frame into a new decoder
\* produces no message: process_byte never returns True.
SingleBitRejected ==
    (pc = "decoding" /\ ~frame.raised) =>
        /\ \A i \in 1..Len(rets) : rets[i] = FALSE
        /\ got = None
        /\ ~decoder.message.valid

\* a corrupted frame with a payload has been fed to its last byte
SingleBitRejectedWitness ==
    /\ pc = "decoding"
    /\ ~frame.raised
    /\ rx = <<>>
    /\ Len(fed) = Len(frame.frame)
    /\ Len(fed) > 7
    /\ fed # frame.frame

---------------------------------------------------------------------------
(* Properties checked under SpecFraming *)

\* C21: for every valid frame, whatever its payload holds, and every single
\* bit flipped in one of its two sync bytes or in its LEN byte, feeding the
\* corrupted bytes into a new decoder produces no message: process_byte
\* never returns True.
FramingBitRejected ==
    (pc = "decoding" /\ ~frame.raised) =>
        \A i \in 1..Len(rets) : rets[i] = FALSE

---------------------------------------------------------------------------
(* Properties checked under SpecStream: hunting for the sync bytes *)

\* `for b in bytes: d.process_byte(b)`: the decoder after bytes k.. of the
\* sequence
RECURSIVE FeedFrom(_, _, _)
FeedFrom(d, bytes, k) ==
    IF k > Len(bytes) THEN d
    ELSE FeedFrom(process_byte(d, bytes[k]).dec, bytes, k + 1)

FeedAll(d, bytes) == FeedFrom(d, bytes, 1)

\* the state the decoder was in when byte i of the input arrived
StateBefore(i) == FeedAll(NewDecoder, SubSeq(fed, 1, i - 1)).state

\* the well-formed frame fed last began at byte i while the decoder was
\* hunting for a sync byte
StartedHunting(i) ==
    /\ WellFormed(SubSeq(fed, i, Len(fed)))
    /\ StateBefore(i) \in {"WAIT_HEADER_0", "WAIT_HEADER_1"}

\* C22: a valid frame whose first byte arrives while the decoder is in
\* WAIT_HEADER_0 or in WAIT_HEADER_1 is decoded: process_byte returns True on
\* the frame's last byte, with that frame's message.
DecodedFromHunt ==
    \A i \in 1..Len(fed) :
        StartedHunting(i) =>
            /\ rets[Len(fed)]
            /\ Len(messages) > 0
            /\ messages[Len(messages)] =
                   Msg(fed[i + 3], fed[i + 4], SubSeq(fed, i + 5, Len(fed) - 2))

\* a frame that followed noise ending in 0xAA has been decoded
DecodedFromHuntWitness ==
    /\ Len(garbage) > 0
    /\ garbage[Len(garbage)] = PROTOCOL_HEADER_0
    /\ Len(device_frames) = 1
    /\ rx = <<>>
    /\ StartedHunting(Len(garbage) + 1)
    /\ StateBefore(Len(garbage) + 1) = "WAIT_HEADER_1"

---------------------------------------------------------------------------
(* Properties checked under SpecDecoder: the steps of process_byte *)

\* process_byte is about to be run on byte b
Processing(b) == fed' # fed /\ rx # <<>> /\ Head(rx) = b

\* C23: in WAIT_HEADER_1 the byte 0x55 is appended to the buffer and the
\* state becomes WAIT_LEN; any other byte resets the decoder, and leaves it
\* in WAIT_HEADER_1 with the buffer [0xAA] when that byte is 0xAA, in
\* WAIT_HEADER_0 with an empty buffer otherwise.
SecondSyncByte ==
    [][\A b \in 0..255 :
          (decoder.state = "WAIT_HEADER_1" /\ Processing(b)) =>
              /\ rets'[Len(rets')] = FALSE
              /\ IF b = PROTOCOL_HEADER_1
                 THEN /\ decoder'.state = "WAIT_LEN"
                      /\ decoder'.buffer = Append(decoder.buffer, b)
                 ELSE /\ decoder'.expected_len = 0
                      /\ decoder'.expected_payload_len = 0
                      /\ decoder'.message = EmptyMessage
                      /\ IF b = PROTOCOL_HEADER_0
                         THEN /\ decoder'.state = "WAIT_HEADER_1"
                              /\ decoder'.buffer = <<PROTOCOL_HEADER_0>>
                         ELSE /\ decoder'.state = "WAIT_HEADER_0"
                              /\ decoder'.buffer = <<>>]_vars

\* a byte that is neither sync byte has followed a first sync byte
SecondSyncByteWitness ==
    /\ fed = <<PROTOCOL_HEADER_0, 66>>
    /\ decoder.state = "WAIT_HEADER_0"

\* C24: in WAIT_LEN a byte v in 2..66 is appended to the buffer, expected_len
\* becomes v, expected_payload_len v - 2 and the state WAIT_TYPE; a value
\* outside 2..66 resets the decoder with no byte kept, except 0xAA, which
\* leaves it in WAIT_HEADER_1 with the buffer [0xAA].
LengthByte ==
    [][\A v \in 0..255 :
          (decoder.state = "WAIT_LEN" /\ Processing(v)) =>
              /\ rets'[Len(rets')] = FALSE
              /\ IF v \in 2..66
                 THEN /\ decoder'.buffer = Append(decoder.buffer, v)
                      /\ decoder'.expected_len = v
                      /\ decoder'.expected_payload_len = v - 2
                      /\ decoder'.state = "WAIT_TYPE"
                 ELSE /\ decoder'.expected_len = 0
                      /\ decoder'.expected_payload_len = 0
                      /\ IF v = PROTOCOL_HEADER_0
                         THEN /\ decoder'.state = "WAIT_HEADER_1"
                              /\ decoder'.buffer = <<PROTOCOL_HEADER_0>>
                         ELSE /\ decoder'.state = "WAIT_HEADER_0"
                              /\ decoder'.buffer = <<>>]_vars

\* the length 1 has been rejected
LengthByteWitness ==
    /\ fed = <<PROTOCOL_HEADER_0, PROTOCOL_HEADER_1, 1>>
    /\ decoder.state = "WAIT_HEADER_0"
    /\ decoder.buffer = <<>>

\* the byte about to be processed is rejected as second sync byte or as
\* length, or completes a frame whose CRC does not match
Rejecting(b) ==
    \/ decoder.state = "WAIT_HEADER_1" /\ b # PROTOCOL_HEADER_1
    \/ decoder.state = "WAIT_LEN" /\ b \notin 2..(2 + PROTOCOL_MAX_PAYLOAD_SIZE)
    \/ CrcMismatchNext

\* C25: right after process_byte returns True, and after a rejected second
\* sync byte, a rejected length byte or a CRC mismatch, state, buffer,
\* expected_len and expected_payload_len have their initial values
\* (WAIT_HEADER_0, empty, 0, 0), except that after rejecting the byte 0xAA
\* the state is WAIT_HEADER_1 and the buffer [0xAA].
ResetPoints ==
    [][\A b \in 0..255 :
          (Processing(b) /\ (rets'[Len(rets')] \/ Rejecting(b))) =>
              /\ decoder'.expected_len = 0
              /\ decoder'.expected_payload_len = 0
              /\ IF Rejecting(b) /\ b = PROTOCOL_HEADER_0
                 THEN /\ decoder'.state = "WAIT_HEADER_1"
                      /\ decoder'.buffer = <<PROTOCOL_HEADER_0>>
                 ELSE /\ decoder'.state = NewDecoder.state
                      /\ decoder'.buffer = NewDecoder.buffer]_vars

\* a frame with a payload has just been emitted
ResetPointsWitness ==
    /\ Len(fed) > 7
    /\ rets[Len(fed)]
    /\ decoder.message.valid
    /\ decoder.state = "WAIT_HEADER_0"
    /\ decoder.expected_len = 0

\* the states between the accepted sync bytes and the end of the frame
InFrame ==
    {"WAIT_LEN", "WAIT_TYPE", "WAIT_SEQ", "WAIT_PAYLOAD", "WAIT_CRC_0", "WAIT_CRC_1"}

\* the longest a frame lasts after its sync bytes: LEN, 66 bytes, two CRC
\* bytes
MaxRecovery == 1 + (2 + PROTOCOL_MAX_PAYLOAD_SIZE) + 2

\* the number of bytes in a row after which the decoder d was in a state of
\* InFrame: every byte processed there is appended to the buffer, which held
\* the two sync bytes on entry
InFrameRun(d) == IF d.state \in InFrame THEN Len(d.buffer) - 1 ELSE 0

\* C26: once the two sync bytes are accepted the decoder leaves the frame,
\* by emitting or by resetting, after at most 69 further bytes: it is never
\* in the states WAIT_LEN .. WAIT_CRC_1 for more than 69 bytes in a row.
BoundedRecovery ==
    [][fed' # fed =>
          /\ InFrameRun(decoder') =
                 IF decoder'.state \in InFrame THEN InFrameRun(decoder) + 1 ELSE 0
          /\ InFrameRun(decoder') <= MaxRecovery]_vars

\* a frame of the largest length is one byte from its end, 68 bytes after
\* its sync bytes were accepted
BoundedRecoveryWitness ==
    /\ decoder.state = "WAIT_CRC_1"
    /\ InFrameRun(decoder) = MaxRecovery

---------------------------------------------------------------------------
(* Properties checked under SpecPair *)

\* the number of True values in a sequence of return values
RECURSIVE TrueCount(_)
TrueCount(r) ==
    IF r = <<>> THEN 0
    ELSE (IF Head(r) THEN 1 ELSE 0) + TrueCount(Tail(r))

\* C27: for every byte stream fed to a new uno decoder (immediate resync on
\* 0xAA) and to a new bridge decoder (offending byte discarded), process_byte
\* of the uno decoder has returned True at least as many times as that of
\* the bridge decoder.
ResyncDecodesNoLess == TrueCount(rets) >= TrueCount(brets)

\* `for b in bytes: d.process_byte(b)` on the bridge decoder: the decoder
\* after bytes k.. of the sequence
RECURSIVE BridgeFeedFrom(_, _, _)
BridgeFeedFrom(d, bytes, k) ==
    IF k > Len(bytes) THEN d
    ELSE BridgeFeedFrom(bridge_process_byte(d, bytes[k]).dec, bytes, k + 1)

\* the state the bridge decoder was in when byte i of the input arrived
BridgeStateBefore(i) == BridgeFeedFrom(NewDecoder, SubSeq(fed, 1, i - 1), 1).state

\* byte b fails the second-sync check or the length check of a bridge
\* decoder in state st
BridgeRejects(st, b) ==
    \/ st = "WAIT_HEADER_1" /\ b # PROTOCOL_HEADER_1
    \/ st = "WAIT_LEN" /\ b \notin 2..(2 + PROTOCOL_MAX_PAYLOAD_SIZE)

\* the bytes from the i-th on are one well-formed frame, fed to its end
FrameFrom(i) == WellFormed(SubSeq(fed, i, Len(fed)))

\* C28: in the bridge decoder a byte that fails the second-sync check or the
\* length check leaves the decoder in WAIT_HEADER_0 with an empty buffer,
\* also when that byte is 0xAA; a valid frame whose first byte is that
\* offending byte is not decoded, and a valid frame that begins at the next
\* byte is decoded.
DiscardsOffender ==
    /\ [][\A b \in 0..255 :
             (Processing(b) /\ BridgeRejects(bdecoder.state, b)) =>
                 /\ brets'[Len(brets')] = FALSE
                 /\ bdecoder'.state = "WAIT_HEADER_0"
                 /\ bdecoder'.buffer = <<>>]_vars
    /\ [](\A i \in 1..Len(fed) :
             (FrameFrom(i) /\ BridgeRejects(BridgeStateBefore(i), fed[i])) =>
                 ~brets[Len(fed)])
    /\ [](\A i \in 2..Len(fed) :
             (FrameFrom(i) /\ BridgeRejects(BridgeStateBefore(i - 1), fed[i - 1])) =>
                 brets[Len(fed)])

\* a frame that began right after a discarded 0xAA has been decoded
DiscardsOffenderWitness ==
    /\ Len(fed) = 9
    /\ fed[1] = PROTOCOL_HEADER_0
    /\ fed[2] = PROTOCOL_HEADER_0
    /\ FrameFrom(3)
    /\ brets[9]

\* C29: whenever the bridge process_byte returns True, decoder.message holds
\* the type, seq and payload of the frame just completed, with valid = True.
BridgeHandsOver ==
    \A len \in 2..(2 + PROTOCOL_MAX_PAYLOAD_SIZE) :
        (/\ Len(fed) >= len + 5
         /\ brets[Len(fed)]
         /\ WellFormed(SubSeq(fed, Len(fed) - len - 4, Len(fed)))) =>
            bdecoder.message =
                Msg(fed[Len(fed) - len - 1], fed[Len(fed) - len],
                    SubSeq(fed, Len(fed) - len + 1, Len(fed) - 2))

---------------------------------------------------------------------------
(* Properties checked under SpecDecoder: the sync-byte preamble *)

\* the number of 0xAA bytes test_command_reception sends ahead of its
\* frames: `sync_bytes = bytes([0xAA] * 10)`
SyncPreambleLen == 10

\* the last SyncPreambleLen bytes processed were all 0xAA
PreambleFed ==
    /\ Len(fed) >= SyncPreambleLen
    /\ \A k \in (Len(fed) - SyncPreambleLen + 1)..Len(fed) : fed[k] = PROTOCOL_HEADER_0

\* C30: from every reachable state of the decoder, after ten consecutive
\* 0xAA bytes the decoder is in WAIT_HEADER_1 with the buffer [0xAA], so that
\* a valid frame sent right after the preamble is decoded.
PreambleResets ==
    PreambleFed =>
        /\ decoder.state = "WAIT_HEADER_1"
        /\ decoder.buffer = <<PROTOCOL_HEADER_0>>

---------------------------------------------------------------------------
(* Properties checked under SpecScripts *)

\* C31: in test_led_diagnostic.py, decode_frame(encode_frame(t, s, p))
\* returns the dict with type t, seq s and payload p for every payload of
\* 0..64 bytes: a buffer that holds exactly one valid frame is decoded.
WholeBufferRoundTrip ==
    (pc = "decoded" /\ Len(input.payload) <= PROTOCOL_MAX_PAYLOAD_SIZE) =>
        decoded = Some([type |-> input.msg_type, seq |-> input.seq,
                        payload |-> input.payload])

\* the scripts whose encode_frame has been called
Called == {name \in ScriptNames : sframes[name] # NotCalled}

\* C32: encode_frame of test_command_reception.py, test_simple.py,
\* test_led_simple.py and test_led_diagnostic.py rejects every payload longer
\* than 64 bytes, so none returns a frame whose LEN byte exceeds 66.
EveryCopyHasLimit ==
    \A name \in Called :
        /\ Len(input.payload) > PROTOCOL_MAX_PAYLOAD_SIZE => sframes[name].raised
        /\ ~sframes[name].raised => sframes[name].frame[3] <= 2 + PROTOCOL_MAX_PAYLOAD_SIZE

\* the scripts C33 names besides the uno and the bridge script
ComparedScripts == {"test_command_reception", "test_led_diagnostic"}

\* C33: for every byte-valued type and seq and every payload of 0..64 bytes,
\* ProtocolEncoder.encode, encode_frame of the bridge script and encode_frame
\* of test_command_reception.py and test_led_diagnostic.py return the same
\* bytes.
OneEncoder ==
    (pc = "bencoded" /\ Len(input.payload) <= PROTOCOL_MAX_PAYLOAD_SIZE) =>
        /\ ~frame.raised
        /\ bframe = frame
        /\ \A name \in Called \cap ComparedScripts : sframes[name] = frame

\* all encoders have returned a frame for a payload of 64 bytes
OneEncoderWitness ==
    /\ pc = "bencoded"
    /\ Len(input.payload) = PROTOCOL_MAX_PAYLOAD_SIZE
    /\ ComparedScripts \subseteq Called
    /\ ~frame.raised
    /\ Len(sframes["test_led_diagnostic"].frame) = PROTOCOL_MAX_PAYLOAD_SIZE + 7

---------------------------------------------------------------------------
(* Properties checked under SpecChannel *)

\* C34: between process_byte calls the stage of the decoder determines the
\* length of its buffer: 0 in WAIT_HEADER_0, 1 in WAIT_HEADER_1, 2 in
\* WAIT_LEN, 3 in WAIT_TYPE, 4 in WAIT_SEQ, 5 + len(payload) with
\* len(payload) < expected_payload_len in WAIT_PAYLOAD, 5 +
\* expected_payload_len in WAIT_CRC_0 and 6 + expected_payload_len in
\* WAIT_CRC_1; and a buffer of two or more bytes begins with AA 55.
StageDeterminesLength ==
    LET d == decoder
        n == Len(d.buffer)
    IN  /\ CASE d.state = "WAIT_HEADER_0" -> n = 0
              [] d.state = "WAIT_HEADER_1" -> n = 1
              [] d.state = "WAIT_LEN" -> n = 2
              [] d.state = "WAIT_TYPE" -> n = 3
              [] d.state = "WAIT_SEQ" -> n = 4
              [] d.state = "WAIT_PAYLOAD" ->
                   /\ n = 5 + Len(d.message.payload)
                   /\ Len(d.message.payload) < d.expected_payload_len
              [] d.state = "WAIT_CRC_0" -> n = 5 + d.expected_payload_len
              [] d.state = "WAIT_CRC_1" -> n = 6 + d.expected_payload_len
        /\ n >= 2 => d.buffer[1] = PROTOCOL_HEADER_0 /\ d.buffer[2] = PROTOCOL_HEADER_1

\* the decoder is inside the payload of a frame that follows a decoded one
StageDeterminesLengthWitness ==
    /\ pc = "receiving"
    /\ \E i \in 1..Len(rets) : rets[i]
    /\ decoder.state = "WAIT_PAYLOAD"
    /\ Len(decoder.buffer) = 6

---------------------------------------------------------------------------
(* Properties checked under SpecDecoder: get_message *)

\* a step that calls get_message, and one that calls process_byte
GetMessageStep == fed' = fed
ProcessByteStep == fed' # fed

\* C35: a decoded message is handed out at most once.  A get_message call
\* that returns a message leaves none to return; a call on a decoder that
\* holds none, or that never completed a frame, returns None; and only a
\* process_byte call that returns True gives the decoder a message to
\* return.
HandedOutOnce ==
    /\ GetMessageStep /\ got' # None => ~decoder'.message.valid
    /\ GetMessageStep /\ ~decoder.message.valid => got' = None
    /\ GetMessageStep /\ (\A i \in 1..Len(rets) : ~rets[i]) => got' = None
    /\ ProcessByteStep /\ ~decoder.message.valid /\ ~rets'[Len(rets')]
           => ~decoder'.message.valid

MessageHandedOutOnce == [][HandedOutOnce]_vars

\* a message has been handed out and the decoder, now without one, is
\* reading the next frame
MessageHandedOutOnceWitness ==
    /\ pc = "decoding"
    /\ got # None
    /\ ~decoder.message.valid
    /\ decoder.state = "WAIT_SEQ"
    /\ \E i \in 1..Len(rets) : rets[i]

---------------------------------------------------------------------------
(* Properties checked under SpecWindows *)

\* transmitted frame j began before the running receive_messages call and
\* its last byte has been read in this call
SplitAcrossWindows(j) ==
    /\ FrameEnd(j - 1) < win_start
    /\ win_start < FrameEnd(j)
    /\ FrameEnd(j) <= Len(fed)

\* C36: the decoder state persists across receive windows: when the first
\* bytes of a valid frame are consumed by one receive_messages call and the
\* remaining bytes by the next call, no byte being discarded in between, the
\* second call returns that frame's message.
SplitFrameDelivered ==
    \A j \in 1..Len(device_frames) :
        SplitAcrossWindows(j)
            => \E i \in 1..Len(messages) : messages[i] = device_frames[j]

\* a frame split across two calls has been completed in the second
SplitFrameDeliveredWitness ==
    /\ rounds >= 1
    /\ \E j \in 1..Len(device_frames) :
           /\ SplitAcrossWindows(j)
           /\ \E i \in 1..Len(messages) : messages[i] = device_frames[j]

---------------------------------------------------------------------------
(* Properties checked under SpecSend *)

\* the SEQ bytes of the frames in the byte string out, a concatenation of
\* frames, in order
RECURSIVE WrittenSeqs(_)
WrittenSeqs(out) ==
    IF Len(out) < 5 THEN <<>>
    ELSE <<out[5]>> \o WrittenSeqs(SubSeq(out, out[3] + 6, Len(out)))

\* a step that is a send_command call
SendStep == rounds' = rounds + 1

\* a send_command call on a closed channel writes nothing, returns 0 and
\* advances the sequence generator by one; the successful call that follows
\* one writes a frame whose sequence number is not the successor of the
\* last one written, the number in between having been used up
ClosedSendStep ==
    /\ SendStep /\ ~is_open =>
           /\ tx' = tx
           /\ sent' = [ret |-> Some(0), raised |-> FALSE]
           /\ next_seq' = next_seq + 1
    /\ SendStep /\ is_open /\ sent = [ret |-> Some(0), raised |-> FALSE] =>
           /\ sent'.ret = Some(next_seq)
           /\ WrittenSeqs(tx') = Append(WrittenSeqs(tx), next_seq)
           /\ \A k \in 1..Len(WrittenSeqs(tx)) : WrittenSeqs(tx)[k] < next_seq - 1

\* C37: when the serial channel is absent or not open, send_command writes
\* nothing and returns 0, yet the sequence generator has advanced by one, so
\* the next successful send skips a sequence number.
ClosedSendSkipsNumber == [][ClosedSendStep]_vars

\* a successful send, a send on the closed channel and a successful send:
\* the numbers 1 and 3 are on the wire
ClosedSendSkipsNumberWitness ==
    /\ pc = "host"
    /\ WrittenSeqs(tx) = <<1, 3>>
    /\ sent.ret = Some(3)
    /\ next_seq = 4

---------------------------------------------------------------------------
(* Properties checked under SpecBridge: the unparseable acknowledgement *)

\* an ACK frame with the awaited sequence number whose payload, the empty
\* byte string, is not a JSON document
UnparseableAck == FrameOf(Msg(MSG_TYPE_ACK, wait_seq, <<>>))

\* C38: an unparseable acknowledgement counts as success in
\* RobotTester.wait_for_ack, which returns {ok: True}; the bridge
\* send_command reports the same situation, a CRC-valid ACK with the awaited
\* sequence and a payload that is not valid JSON, as ok = False.  Here: the
\* bridge call that read exactly that frame has returned the dict with ok =
\* False.
BridgeReportsParseFailure ==
    (/\ pc = "bidle"
     /\ rounds > 0
     /\ SubSeq(fed, win_start + 1, Len(fed)) = UnparseableAck)
    => got = Some([ok |-> FALSE, parsed |-> FALSE, err |-> 0, seq |-> wait_seq])

---------------------------------------------------------------------------
(* Properties checked under SpecChannel: the branches never taken *)

\* the decoder as validate_frame sees it: the byte read has been appended
Appended == [decoder EXCEPT !.buffer = Append(@, Head(rx) % 256)]

\* a receive_messages step whose byte reaches validate_frame finds the
\* buffer at the expected length, and a step whose byte arrives in
\* WAIT_PAYLOAD finds the payload incomplete
LengthCheckPasses ==
    /\ rx # <<>> /\ decoder.state = "WAIT_CRC_1" =>
           Len(Appended.buffer) = decoder.expected_len + 5
    /\ rx # <<>> /\ decoder.state = "WAIT_PAYLOAD" =>
           Len(decoder.message.payload) < decoder.expected_payload_len

\* C39: the structural length check never rejects: whenever validate_frame
\* is reached (second CRC byte in WAIT_CRC_1), len(buffer) equals
\* expected_len + 5, so a frame is refused there only because of a CRC
\* mismatch; and the 'payload complete but still in WAIT_PAYLOAD' branch of
\* process_byte is never taken.
LengthCheckNeverRejects == [][LengthCheckPasses]_vars

\* validate_frame has been reached and has refused a frame of the right
\* length: AA 55 02 00 00 00 00
LengthCheckNeverRejectsWitness ==
    /\ pc = "receiving"
    /\ fed = <<PROTOCOL_HEADER_0, PROTOCOL_HEADER_1, 2, 0, 0, 0, 0>>
    /\ ~rets[7]
    /\ decoder.state = "WAIT_HEADER_0"

=============================================================================
